---- MODULE Spec2Model ----
(***************************************************************************)
(* Link converter (src/converter.js): the four link parsers, the parser    *)
(* dispatch, the four serializers, the batch loop processLinks, the        *)
(* template system and the convert handler with its two input modes; the   *)
(* health-check service (src/unnamed/part_001); and the log processor      *)
(* (src/supabase/functions/log-processor/index.ts).  Each part has its own *)
(* specification over the one set of variables, the variables of the       *)
(* other parts staying as they are.                                        *)
(*                                                                         *)
(* A text is a sequence of tokens.  Every character of an input link is a  *)
(* one-character token, so the parsers split, search and decode links      *)
(* character by character.  A literal piece that the code only emits (a    *)
(* default name, the fixed parts of an output line or of an error          *)
(* message) is kept as one token.  JavaScript values that are not text     *)
(* (undefined, null, a number given as a link) are reserved one-token      *)
(* sequences whose token is no character.  A JavaScript number is a record *)
(* [nan, val].                                                             *)
(***************************************************************************)
EXTENDS Integers, Sequences, FiniteSets, TLC

VARIABLES links, i, results, pc,      \* one call of processLinks
          files, cache, now, requests,  \* the template system and its callers
          rawInput,                     \* the link parameter of a GET request
          stats, checks,                \* the health-check service
          storage, table, job           \* the log processor

vars == <<links, i, results, pc, files, cache, now, requests, rawInput, stats, checks,
          storage, table, job>>

\* the state of the template system and of the requests that use it
templates == <<files, cache, now, requests>>

\* the state of the call of processLinks
batch == <<links, i, results, pc>>

\* the counters of the health-check service and its /health requests
health == <<stats, checks>>

\* the bucket, the statistics table and the run of the log processor
logs == <<storage, table, job>>

-----------------------------------------------------------------------------
(* JavaScript values *)

Undefined == <<"\\undefined">>
JsNull == <<"\\null">>
JsNumber == <<"\\number">>
NonText == {Undefined, JsNull, JsNumber}

IsString(x) == x \notin NonText

\* JavaScript truthiness of a text-or-not value: '' , undefined, null are falsy
\* (JsNumber stands for a non-zero number).
Truthy(x) == x # <<>> /\ x # Undefined /\ x # JsNull

\* a || b
Or(a, b) == IF Truthy(a) THEN a ELSE b

NaN == [nan |-> TRUE, val |-> 0]
Num(n) == [nan |-> FALSE, val |-> n]

-----------------------------------------------------------------------------
(* String primitives *)

\* String.prototype.indexOf for a one-character needle, 1-based; 0 when absent
\* (JavaScript: 0-based, -1 when absent).
IndexOf(s, c) ==
  IF \A k \in 1..Len(s) : s[k] # c THEN 0
  ELSE CHOOSE k \in 1..Len(s) : s[k] = c /\ \A j \in 1..(k - 1) : s[j] # c

StartsWith(s, p) == Len(s) >= Len(p) /\ SubSeq(s, 1, Len(p)) = p

\* s.substring(from) with a 1-based first position
From(s, k) == SubSeq(s, k, Len(s))

RECURSIVE Split(_, _)
RECURSIVE SplitAt(_, _, _)
\* String.prototype.split for a one-character separator: all the parts
Split(s, c) == SplitAt(s, c, IndexOf(s, c))

\* the parts of s, whose first separator is at k (0: none)
SplitAt(s, c, k) ==
  IF k = 0 THEN <<s>>
  ELSE <<SubSeq(s, 1, k - 1)>> \o Split(From(s, k + 1), c)

\* the k-th element of an array destructuring: undefined past the end
Nth(parts, k) == IF k <= Len(parts) THEN parts[k] ELSE Undefined

RECURSIVE Join(_, _)
\* Array.prototype.join
Join(parts, c) ==
  IF parts = <<>> THEN <<>>
  ELSE IF Len(parts) = 1 THEN parts[1]
  ELSE parts[1] \o <<c>> \o Join(Tail(parts), c)

Digits == <<"0","1","2","3","4","5","6","7","8","9">>

IsDigit(c) == \E d \in 1..10 : Digits[d] = c
DigitVal(c) == (CHOOSE d \in 1..10 : Digits[d] = c) - 1

RECURSIVE DigitsValue(_, _)
\* the value of the leading run of decimal digits of s, acc so far
DigitsValue(s, acc) ==
  IF s = <<>> \/ ~IsDigit(s[1]) THEN acc
  ELSE DigitsValue(Tail(s), acc * 10 + DigitVal(s[1]))

RECURSIVE SkipSpaces(_)
SkipSpaces(s) == IF s # <<>> /\ s[1] = " " THEN SkipSpaces(Tail(s)) ELSE s

\* the digits after the sign
ParseDigits(u, negative) ==
  IF u = <<>> \/ ~IsDigit(u[1]) THEN NaN
  ELSE Num(IF negative THEN 0 - DigitsValue(u, 0) ELSE DigitsValue(u, 0))

ParseSigned(t) ==
  IF t # <<>> /\ t[1] \in {"-", "+"} THEN ParseDigits(Tail(t), t[1] = "-")
  ELSE ParseDigits(t, FALSE)

\* parseInt(x, 10): leading blanks, an optional sign, then the leading digits;
\* NaN when there is no digit (also for undefined, which reads "undefined").
parseInt(x) == IF ~IsString(x) THEN NaN ELSE ParseSigned(SkipSpaces(x))

RECURSIVE NatToStr(_)
NatToStr(n) ==
  IF n < 10 THEN <<Digits[n + 1]>>
  ELSE NatToStr(n \div 10) \o <<Digits[(n % 10) + 1]>>

\* a number inside a template literal
NumToStr(x) ==
  IF x.nan THEN <<"NaN">>
  ELSE IF x.val < 0 THEN <<"-">> \o NatToStr(0 - x.val)
  ELSE NatToStr(x.val)

\* a text-or-undefined value inside a template literal
Show(x) == IF x = Undefined THEN <<"undefined">> ELSE x

-----------------------------------------------------------------------------
(* Codecs: percent-encoding, base64, flat JSON *)

Ascii ==
  <<" ","!","\"","#","$","%","&","'","(",")","*","+",",","-",".","/",
    "0","1","2","3","4","5","6","7","8","9",":",";","<","=",">","?",
    "@","A","B","C","D","E","F","G","H","I","J","K","L","M","N","O",
    "P","Q","R","S","T","U","V","W","X","Y","Z","[","\\","]","^","_",
    "\\x96","a","b","c","d","e","f","g","h","i","j","k","l","m","n","o",
    "p","q","r","s","t","u","v","w","x","y","z","{","|","}","~">>

\* the character of a byte; a byte that is no printable ASCII character is
\* kept as a token naming it (so is the backquote, byte 96, which the module's
\* lexical rules do not let be written as a string)
ByteToChar(b) ==
  IF b - 31 \in 1..Len(Ascii) THEN Ascii[b - 31]
  ELSE "\\x" \o ToString(b)

IsAscii(c) == \E k \in 1..Len(Ascii) : Ascii[k] = c
CharToByte(c) == (CHOOSE k \in 1..Len(Ascii) : Ascii[k] = c) + 31

HexDigits == <<"0","1","2","3","4","5","6","7","8","9","A","B","C","D","E","F">>
HexLower == <<"0","1","2","3","4","5","6","7","8","9","a","b","c","d","e","f">>

IsHex(c) == \E d \in 1..16 : HexDigits[d] = c \/ HexLower[d] = c
HexVal(c) == (CHOOSE d \in 1..16 : HexDigits[d] = c \/ HexLower[d] = c) - 1

\* characters encodeURIComponent leaves as they are
IsAlnum(c) ==
  \E k \in 1..Len(Ascii) :
     Ascii[k] = c /\ (k + 31 \in 48..57 \/ k + 31 \in 65..90
                        \/ k + 31 \in 97..122)

Apostrophe == Ascii[8]

UnreservedMarks == {"-", "_", ".", "!", "~", "*", Apostrophe, "(", ")"}

Unreserved(c) == IsAlnum(c) \/ c \in UnreservedMarks

RECURSIVE encodeURIComponent(_)
encodeURIComponent(s) ==
  IF s = <<>> THEN <<>>
  ELSE (IF Unreserved(s[1]) THEN <<s[1]>>
        ELSE LET b == CharToByte(s[1])
             IN <<"%", HexDigits[(b \div 16) + 1], HexDigits[(b % 16) + 1]>>)
       \o encodeURIComponent(Tail(s))

\* decodeURIComponent throws URIError on a '%' that is not followed by two
\* hexadecimal digits (a byte above 127 needs a UTF-8 sequence: the links drawn
\* here hold none, and a lone one is malformed)
UriWellFormed(s) ==
  \A k \in 1..Len(s) :
     s[k] = "%" =>
        /\ k + 2 <= Len(s)
        /\ IsHex(s[k + 1]) /\ IsHex(s[k + 2])
        /\ HexVal(s[k + 1]) * 16 + HexVal(s[k + 2]) <= 127

RECURSIVE UriDecoded(_)
UriDecoded(s) ==
  IF s = <<>> THEN <<>>
  ELSE IF s[1] = "%"
       THEN <<ByteToChar(HexVal(s[2]) * 16 + HexVal(s[3]))>> \o UriDecoded(From(s, 4))
       ELSE <<s[1]>> \o UriDecoded(Tail(s))

\* decodeURIComponent(x): [ok, v]; ok = FALSE is the URIError.  undefined reads
\* as the text "undefined".
decodeURIComponent(x) ==
  LET s == Show(x)
  IN IF UriWellFormed(s) THEN [ok |-> TRUE, v |-> UriDecoded(s)]
     ELSE [ok |-> FALSE, v |-> <<>>]

Base64Alphabet ==
  <<"A","B","C","D","E","F","G","H","I","J","K","L","M","N","O","P",
    "Q","R","S","T","U","V","W","X","Y","Z","a","b","c","d","e","f",
    "g","h","i","j","k","l","m","n","o","p","q","r","s","t","u","v",
    "w","x","y","z","0","1","2","3","4","5","6","7","8","9","+","/">>

\* the 6-bit value of a base64 character ('-' and '_' are read as '+' and '/'),
\* 64 for any other character
Unbase64(c) ==
  IF c = "-" THEN 62
  ELSE IF c = "_" THEN 63
  ELSE IF \E k \in 1..64 : Base64Alphabet[k] = c
       THEN (CHOOSE k \in 1..64 : Base64Alphabet[k] = c) - 1
  ELSE 64

\* the text before the first '=' (all of it when there is none, k = 0)
BeforePadding(s, k) == IF k = 0 THEN s ELSE SubSeq(s, 1, k - 1)

SextetsOf(chars) == [k \in 1..Len(chars) |-> Unbase64(chars[k])]

\* Buffer.from(s, 'base64') never throws: it skips every character that is no
\* base64 character and stops at the first '='
Sextets(s) ==
  SextetsOf(SelectSeq(BeforePadding(s, IndexOf(s, "=")), LAMBDA c : Unbase64(c) < 64))

\* every 4 sextets give 3 bytes; 2 or 3 sextets left over give 1 or 2 bytes
SextetsToBytes(v) ==
  [k \in 1..((Len(v) * 3) \div 4) |->
     IF (k - 1) % 3 = 0
     THEN v[4 * ((k - 1) \div 3) + 1] * 4 + (v[4 * ((k - 1) \div 3) + 2] \div 16)
     ELSE IF (k - 1) % 3 = 1
     THEN (v[4 * ((k - 1) \div 3) + 2] % 16) * 16 + (v[4 * ((k - 1) \div 3) + 3] \div 4)
     ELSE (v[4 * ((k - 1) \div 3) + 3] % 4) * 64 + v[4 * ((k - 1) \div 3) + 4]]

BytesToText(bytes) == [k \in 1..Len(bytes) |-> ByteToChar(bytes[k])]

\* Buffer.from(s, 'base64').toString('utf8')
Base64Decode(s) == BytesToText(SextetsToBytes(Sextets(s)))

\* the strict reading of base64: only alphabet characters, '=' padding only at
\* the end, a whole number of 4-character groups
StrictBase64(s, n) ==
  /\ Len(s) % 4 = 0
  /\ Len(s) - n <= 2
  /\ \A k \in 1..Len(s) : k <= n => Unbase64(s[k]) < 64 /\ s[k] \notin {"-", "_"}
  /\ \A k \in 1..Len(s) : k > n => s[k] = "="

ValidBase64(s) == StrictBase64(s, Len(BeforePadding(s, IndexOf(s, "="))))

\* the byte at k, 0 past the end
ByteAt(b, k) == IF k <= Len(b) THEN b[k] ELSE 0

\* every 3 bytes give 4 characters; '=' fills the last group
BytesToBase64(b) ==
  [j \in 1..(4 * ((Len(b) + 2) \div 3)) |->
     IF (j - 1) % 4 = 0
     THEN Base64Alphabet[(ByteAt(b, 3 * ((j - 1) \div 4) + 1) \div 4) + 1]
     ELSE IF (j - 1) % 4 = 1
     THEN Base64Alphabet[(ByteAt(b, 3 * ((j - 1) \div 4) + 1) % 4) * 16
                         + (ByteAt(b, 3 * ((j - 1) \div 4) + 2) \div 16) + 1]
     ELSE IF (j - 1) % 4 = 2
     THEN IF 3 * ((j - 1) \div 4) + 2 > Len(b) THEN "="
          ELSE Base64Alphabet[(ByteAt(b, 3 * ((j - 1) \div 4) + 2) % 16) * 4
                              + (ByteAt(b, 3 * ((j - 1) \div 4) + 3) \div 64) + 1]
     ELSE IF 3 * ((j - 1) \div 4) + 3 > Len(b) THEN "="
          ELSE Base64Alphabet[(ByteAt(b, 3 * ((j - 1) \div 4) + 3) % 64) + 1]]

\* how a link's author encodes a payload (the inverse the parsers rely on)
Base64Encode(s) == BytesToBase64([k \in 1..Len(s) |-> CharToByte(s[k])])

-----------------------------------------------------------------------------
(* The string literals of the code that are compared with parts of a link,
   character by character *)

\* the text literals of the parsers and the serializers
Lit ==
  [vlessPrefix |-> <<"v","l","e","s","s",":","/","/">>,
   vmessPrefix |-> <<"v","m","e","s","s",":","/","/">>,
   trojanPrefix |-> <<"t","r","o","j","a","n",":","/","/">>,
   ssPrefix |-> <<"s","s",":","/","/">>,
   vless |-> <<"v","l","e","s","s">>,
   vmess |-> <<"v","m","e","s","s">>,
   trojan |-> <<"t","r","o","j","a","n">>,
   ss |-> <<"s","s">>,
   shadowsocks |-> <<"s","h","a","d","o","w","s","o","c","k","s">>,
   ws |-> <<"w","s">>,
   grpc |-> <<"g","r","p","c">>,
   tcp |-> <<"t","c","p">>,
   tls |-> <<"t","l","s">>,
   reality |-> <<"r","e","a","l","i","t","y">>,
   none |-> <<"n","o","n","e">>,
   auto |-> <<"a","u","t","o">>,
   one |-> <<"1">>,
   true |-> <<"t","r","u","e">>,
   slash |-> <<"/">>,
   chrome |-> <<"c","h","r","o","m","e">>]

\* the names of the parameters the parsers read
ParamKey ==
  [security |-> <<"s","e","c","u","r","i","t","y">>,
   flow |-> <<"f","l","o","w">>,
   type |-> <<"t","y","p","e">>,
   path |-> <<"p","a","t","h">>,
   host |-> <<"h","o","s","t">>,
   sni |-> <<"s","n","i">>,
   fp |-> <<"f","p">>,
   pbk |-> <<"p","b","k">>,
   sid |-> <<"s","i","d">>,
   spx |-> <<"s","p","x">>,
   alpn |-> <<"a","l","p","n">>,
   allowInsecure |-> <<"a","l","l","o","w","I","n","s","e","c","u","r","e">>,
   ps |-> <<"p","s">>,
   id |-> <<"i","d">>,
   add |-> <<"a","d","d">>,
   port |-> <<"p","o","r","t">>,
   aid |-> <<"a","i","d">>,
   sc |-> <<"s","c">>,
   cipher |-> <<"c","i","p","h","e","r">>,
   net |-> <<"n","e","t">>,
   tls |-> <<"t","l","s">>,
   plugin |-> <<"p","l","u","g","i","n">>,
   obfs |-> <<"o","b","f","s">>,
   obfsHost |-> <<"o","b","f","s","-","h","o","s","t">>]

-----------------------------------------------------------------------------
(* Results of an operation that may throw *)

Ok(r) == [ok |-> TRUE, rec |-> r]
Throw(msg) == [ok |-> FALSE, err |-> msg]

\* TypeError of calling a method on undefined
TypeErrorSplit == <<"Cannot read properties of undefined (reading 'split')">>
UriError == <<"URI malformed">>

-----------------------------------------------------------------------------
(* Query strings, as parseVLESS and parseTrojan read them *)

\* pair.split('='): the key and the value are the first two parts
PairKey(pair) == Nth(Split(pair, "="), 1)
PairValue(pair) == Or(Nth(Split(pair, "="), 2), <<>>)

\* the pairs that are stored: those with a non-empty key
KeyedPairs(q) == SelectSeq(Split(q, "&"), LAMBDA pair : Truthy(PairKey(pair)))

PairsOk(pairs) ==
  \A k \in 1..Len(pairs) :
     /\ decodeURIComponent(PairKey(pairs[k])).ok
     /\ decodeURIComponent(PairValue(pairs[k])).ok

\* no decodeURIComponent of a key or a value throws
QueryOk(q) == PairsOk(KeyedPairs(q))

PairsParams(pairs) ==
  [k \in 1..Len(pairs) |->
     [key |-> decodeURIComponent(PairKey(pairs[k])).v,
      value |-> decodeURIComponent(PairValue(pairs[k])).v]]

\* params: the decoded (key, value) pairs in the order they are assigned
QueryParams(q) == PairsParams(KeyedPairs(q))

\* params[name]: the last assignment wins; undefined when never assigned
Get(params, name) ==
  IF \A k \in 1..Len(params) : params[k].key # name THEN Undefined
  ELSE params[CHOOSE k \in 1..Len(params) :
                 /\ params[k].key = name
                 /\ \A j \in (k + 1)..Len(params) : params[j].key # name].value

DecodedOrRaw(raw, decoded) == IF decoded.ok THEN decoded.v ELSE raw

\* the display name: the decoded text, or the raw text when decoding throws
DecodedName(raw) == DecodedOrRaw(raw, decodeURIComponent(raw))

\* the display name of a fragment, or the placeholder when there is none
NameOr(fragment, placeholder) ==
  IF Truthy(fragment) THEN DecodedName(fragment) ELSE placeholder

AllowInsecure(params) ==
  Get(params, ParamKey.allowInsecure) = Lit.one \/ Get(params, ParamKey.allowInsecure) = Lit.true

-----------------------------------------------------------------------------
(* parseVLESS *)

\* a fault: the server name without its last fallback, the literal host
VlessRecordNoHostFallback(uuid, host, port, params, name) ==
  [type |-> Lit.vless,
   uuid |-> uuid,
   host |-> host,
   port |-> parseInt(port),
   security |-> Or(Get(params, ParamKey.security), Lit.none),
   flow |-> Or(Get(params, ParamKey.flow), <<>>),
   network |-> Or(Get(params, ParamKey.type), Lit.tcp),
   path |-> Or(Get(params, ParamKey.path),
               IF Get(params, ParamKey.type) = Lit.ws THEN Lit.slash ELSE <<>>),
   host_header |-> Or(Get(params, ParamKey.host), <<>>),
   sni |-> Or(Get(params, ParamKey.sni), Get(params, ParamKey.host)),
   fp |-> Or(Get(params, ParamKey.fp), <<>>),
   pbk |-> Or(Get(params, ParamKey.pbk), <<>>),
   sid |-> Or(Get(params, ParamKey.sid), <<>>),
   spx |-> Or(Get(params, ParamKey.spx), <<>>),
   alpn |-> Or(Get(params, ParamKey.alpn), <<>>),
   allowInsecure |-> AllowInsecure(params),
   name |-> name]

\* lines 137-155
VlessRecord(uuid, host, port, params, name) ==
  [type |-> Lit.vless,
   uuid |-> uuid,
   host |-> host,
   port |-> parseInt(port),
   security |-> Or(Get(params, ParamKey.security), Lit.none),
   flow |-> Or(Get(params, ParamKey.flow), <<>>),
   network |-> Or(Get(params, ParamKey.type), Lit.tcp),
   path |-> Or(Get(params, ParamKey.path),
               IF Get(params, ParamKey.type) = Lit.ws THEN Lit.slash ELSE <<>>),
   host_header |-> Or(Get(params, ParamKey.host), <<>>),
   sni |-> Or(Get(params, ParamKey.sni), Or(Get(params, ParamKey.host), host)),
   fp |-> Or(Get(params, ParamKey.fp), <<>>),
   pbk |-> Or(Get(params, ParamKey.pbk), <<>>),
   sid |-> Or(Get(params, ParamKey.sid), <<>>),
   spx |-> Or(Get(params, ParamKey.spx), <<>>),
   alpn |-> Or(Get(params, ParamKey.alpn), <<>>),
   allowInsecure |-> AllowInsecure(params),
   name |-> name]

\* lines 109-155, from hostPort = hostport.split(':') and
\* paramParts = paramString.split('#') (<<>> when paramString is falsy)
VlessFromParams(uuid, hostPort, paramParts) ==
  IF ~QueryOk(Or(Nth(paramParts, 1), <<>>)) THEN Throw(UriError)
  ELSE Ok(VlessRecord(uuid, Nth(hostPort, 1), Nth(hostPort, 2),
                      QueryParams(Or(Nth(paramParts, 1), <<>>)),
                      NameOr(Nth(paramParts, 2), <<"VLESS Server">>)))

\* lines 106-107, from restParts = rest.split('?')
VlessFromRest(uuid, restParts) ==
  VlessFromParams(uuid, Split(restParts[1], ":"),
                  IF Truthy(Nth(restParts, 2)) THEN Split(restParts[2], "#") ELSE <<>>)

\* lines 103-106, from atParts = clean.split('@'); rest.split throws when there
\* is no '@'
VlessFromClean(atParts) ==
  IF Nth(atParts, 2) = Undefined THEN Throw(TypeErrorSplit)
  ELSE VlessFromRest(Split(atParts[1], ":")[1], Split(atParts[2], "?"))

\* link.replace('vless://', '') removes the prefix: the link starts with it
parseVLESS(link) ==
  IF ~StartsWith(link, Lit.vlessPrefix) THEN Throw(<<"Bukan link VLESS">>)
  ELSE VlessFromClean(Split(From(link, Len(Lit.vlessPrefix) + 1), "@"))

-----------------------------------------------------------------------------
(* parseVMess *)

\* JSON.parse, on the texts the links drawn here carry: a flat object whose
\* values are strings without escapes, written without blanks.  Cut at the
\* quotes, such a text is  {  key  :  value  ,  key  :  value  }  ; any other
\* text drawn here is no JSON at all, and JSON.parse throws.
JsonPieces(t) == Split(t, "\"")

PiecesWellFormed(p) ==
  /\ Len(p) >= 5 /\ Len(p) % 4 = 1
  /\ p[1] = <<"{">> /\ p[Len(p)] = <<"}">>
  /\ \A k \in 1..Len(p) :
        /\ (k % 4 = 3) => p[k] = <<":">>
        /\ (k % 4 = 1 /\ k # 1 /\ k # Len(p)) => p[k] = <<",">>
        /\ (k % 2 = 0) => \A j \in 1..Len(p[k]) : p[k][j] # "\\"

JsonWellFormed(t) == t = <<"{", "}">> \/ PiecesWellFormed(JsonPieces(t))

PiecesObject(p) ==
  [k \in 1..((Len(p) - 1) \div 4) |-> [key |-> p[4 * k - 2], value |-> p[4 * k]]]

\* the object: the (key, value) pairs in the order they are written
JsonObject(t) == PiecesObject(JsonPieces(t))

\* line 187: type: obj.type || 'none'
VmessTypeOverwritten(obj) == Or(Get(obj, ParamKey.type), Lit.none)

NumberOrZero(n) == IF n.nan THEN Num(0) ELSE n

\* line 184: parseInt(obj.aid, 10) || 0
VmessAlterId(obj) == NumberOrZero(parseInt(Get(obj, ParamKey.aid)))

\* lines 179-195.  The object literal names the key type twice (lines 180 and
\* 187): the later value, obj.type || 'none', is the one the record holds.
VmessRecord(obj) ==
  [[type |-> Lit.vmess,
    uuid |-> Get(obj, ParamKey.id),
    host |-> Get(obj, ParamKey.add),
    port |-> parseInt(Get(obj, ParamKey.port)),
    alterId |-> VmessAlterId(obj),
    security |-> Or(Get(obj, ParamKey.sc), Or(Get(obj, ParamKey.cipher), Lit.auto)),
    network |-> Or(Get(obj, ParamKey.net), Lit.tcp),
    path |-> Or(Get(obj, ParamKey.path),
                IF Get(obj, ParamKey.net) = Lit.ws THEN Lit.slash ELSE <<>>),
    host_header |-> Or(Get(obj, ParamKey.host), Get(obj, ParamKey.add)),
    sni |-> Or(Get(obj, ParamKey.sni), Or(Get(obj, ParamKey.host), Get(obj, ParamKey.add))),
    tls |-> (Get(obj, ParamKey.tls) = Lit.tls),
    alpn |-> Or(Get(obj, ParamKey.alpn), <<>>),
    fp |-> Or(Get(obj, ParamKey.fp), <<>>),
    name |-> NameOr(Get(obj, ParamKey.ps), <<"VMess Server">>)]
   EXCEPT !.type = VmessTypeOverwritten(obj)]

\* lines 165-198, from jsonStr
VmessFromJson(jsonStr) ==
  IF ~JsonWellFormed(jsonStr) THEN Throw(<<"Invalid VMess base64 JSON">>)
  ELSE Ok(VmessRecord(JsonObject(jsonStr)))

parseVMess(link) ==
  IF ~StartsWith(link, Lit.vmessPrefix) THEN Throw(<<"Bukan link VMess">>)
  ELSE VmessFromJson(Base64Decode(From(link, Len(Lit.vmessPrefix) + 1)))

-----------------------------------------------------------------------------
(* parseTrojan *)

\* lines 214-230: the text before the query and the fragment, the query and the
\* fragment, from the positions of the first '?' and the first '#' (0: none)
TrojanSegmentsAt(cleanLink, paramStartIndex, fragmentStartIndex) ==
  IF paramStartIndex = 0 /\ fragmentStartIndex = 0
  THEN [info |-> cleanLink, paramString |-> <<>>, fragment |-> <<>>]
  ELSE IF paramStartIndex # 0 /\ fragmentStartIndex = 0
  THEN [info |-> SubSeq(cleanLink, 1, paramStartIndex - 1),
        paramString |-> From(cleanLink, paramStartIndex + 1),
        fragment |-> <<>>]
  ELSE IF paramStartIndex = 0 /\ fragmentStartIndex # 0
  THEN [info |-> SubSeq(cleanLink, 1, fragmentStartIndex - 1),
        paramString |-> <<>>,
        fragment |-> From(cleanLink, fragmentStartIndex + 1)]
  ELSE IF fragmentStartIndex > paramStartIndex
  THEN [info |-> SubSeq(cleanLink, 1, paramStartIndex - 1),
        paramString |-> SubSeq(cleanLink, paramStartIndex + 1, fragmentStartIndex - 1),
        fragment |-> From(cleanLink, fragmentStartIndex + 1)]
  ELSE [info |-> SubSeq(cleanLink, 1, paramStartIndex - 1),
        paramString |-> From(cleanLink, paramStartIndex + 1),
        fragment |-> <<>>]

\* lines 207-208
TrojanSegments(cleanLink) ==
  TrojanSegmentsAt(cleanLink, IndexOf(cleanLink, "?"), IndexOf(cleanLink, "#"))

\* lines 265-279
TrojanRecord(password, host, port, params, name) ==
  [type |-> Lit.trojan,
   password |-> password,
   host |-> host,
   port |-> port,
   security |-> Lit.tls,
   network |-> Or(Get(params, ParamKey.type), Lit.tcp),
   path |-> Or(Get(params, ParamKey.path),
               IF Get(params, ParamKey.type) = Lit.ws THEN Lit.slash ELSE <<>>),
   host_header |-> Or(Get(params, ParamKey.host), host),
   sni |-> Or(Get(params, ParamKey.sni), Or(Get(params, ParamKey.host), host)),
   alpn |-> Or(Get(params, ParamKey.alpn), <<>>),
   fp |-> Or(Get(params, ParamKey.fp), <<>>),
   allowInsecure |-> AllowInsecure(params),
   name |-> name]

\* lines 237-279, from serverParts = serverinfo.split(':'), port = parseInt(portStr)
\* and password = decodeURIComponent(userinfo)
TrojanFromServer(password, serverParts, port, seg) ==
  IF port.nan THEN Throw(<<"Invalid Trojan link format: Invalid port">>)
  ELSE IF ~QueryOk(seg.paramString) THEN Throw(UriError)
  ELSE IF ~password.ok THEN Throw(UriError)
  ELSE Ok(TrojanRecord(password.v, Nth(serverParts, 1), port,
                       QueryParams(seg.paramString),
                       NameOr(seg.fragment, <<"Trojan Server">>)))

\* the fault the password test guards against: the userinfo kept as written
TrojanFromInfoRaw(atParts, seg) ==
  IF ~Truthy(Nth(atParts, 1)) \/ ~Truthy(Nth(atParts, 2))
  THEN Throw(<<"Invalid Trojan link format: Missing userinfo or serverinfo">>)
  ELSE TrojanFromServer([ok |-> TRUE, v |-> atParts[1]], Split(atParts[2], ":"),
                        parseInt(Nth(Split(atParts[2], ":"), 2)), seg)

\* lines 232-241, from atParts = userinfo_and_serverinfo.split('@')
TrojanFromInfo(atParts, seg) ==
  IF ~Truthy(Nth(atParts, 1)) \/ ~Truthy(Nth(atParts, 2))
  THEN Throw(<<"Invalid Trojan link format: Missing userinfo or serverinfo">>)
  ELSE TrojanFromServer(decodeURIComponent(atParts[1]), Split(atParts[2], ":"),
                        parseInt(Nth(Split(atParts[2], ":"), 2)), seg)

TrojanFromSegments(seg) == TrojanFromInfo(Split(seg.info, "@"), seg)

parseTrojan(link) ==
  IF ~StartsWith(link, Lit.trojanPrefix) THEN Throw(<<"Bukan link Trojan">>)
  ELSE TrojanFromSegments(TrojanSegments(From(link, Len(Lit.trojanPrefix) + 1)))

-----------------------------------------------------------------------------
(* parseSS *)

RECURSIVE UrlDecoded(_)
\* the decoding of URLSearchParams: '+' is a blank, a well-formed %XX is its
\* byte, anything else stays as written; it never throws
UrlDecoded(s) ==
  IF s = <<>> THEN <<>>
  ELSE IF s[1] = "+" THEN <<" ">> \o UrlDecoded(Tail(s))
  ELSE IF s[1] = "%" /\ Len(s) >= 3 /\ IsHex(s[2]) /\ IsHex(s[3])
       THEN <<ByteToChar(HexVal(s[2]) * 16 + HexVal(s[3]))>> \o UrlDecoded(From(s, 4))
  ELSE <<s[1]>> \o UrlDecoded(Tail(s))

\* one name=value piece, cut at its first '=' (at e; 0: none)
SearchPair(piece, e) ==
  IF e = 0 THEN [key |-> UrlDecoded(piece), value |-> <<>>]
  ELSE [key |-> UrlDecoded(SubSeq(piece, 1, e - 1)),
        value |-> UrlDecoded(From(piece, e + 1))]

SearchPairs(pieces) ==
  [k \in 1..Len(pieces) |-> SearchPair(pieces[k], IndexOf(pieces[k], "="))]

\* new URLSearchParams(q): the non-empty pieces between '&'
SearchParams(q) == SearchPairs(SelectSeq(Split(q, "&"), LAMBDA x : x # <<>>))

\* params.get(name) || '': the first pair of that name
SearchGet(params, name) ==
  IF \A k \in 1..Len(params) : params[k].key # name THEN <<>>
  ELSE params[CHOOSE k \in 1..Len(params) :
                 /\ params[k].key = name
                 /\ \A j \in 1..(k - 1) : params[j].key # name].value

\* lines 315-319, from parts = rawPlugin.split(';')
PluginName(rawPlugin, parts) == IF Truthy(rawPlugin) THEN parts[1] ELSE <<>>
\* a fault: only the first option is kept
PluginOptionsFirst(rawPlugin, parts) ==
  IF Truthy(rawPlugin) /\ Len(parts) > 1 THEN parts[2] ELSE <<>>

PluginOptions(rawPlugin, parts) ==
  IF Truthy(rawPlugin) THEN Join(Tail(parts), ";") ELSE <<>>

\* lines 307-346
SsRecord(method, password, host, port, params, name) ==
  [type |-> Lit.ss,
   method |-> method,
   password |-> password,
   host |-> host,
   port |-> port,
   plugin |-> PluginName(SearchGet(params, ParamKey.plugin),
                         Split(SearchGet(params, ParamKey.plugin), ";")),
   plugin_opts |-> PluginOptions(SearchGet(params, ParamKey.plugin),
                                 Split(SearchGet(params, ParamKey.plugin), ";")),
   obfs |-> SearchGet(params, ParamKey.obfs),
   obfsHost |-> SearchGet(params, ParamKey.obfsHost),
   name |-> name]

\* lines 293-346, from portParts = portWithParams.split('?') and
\* credentials = decoded.split(':', 2)
SsFromPort(credentials, host, portParts, fragment) ==
  Ok(SsRecord(Nth(credentials, 1), Nth(credentials, 2), host,
              parseInt(portParts[1]),
              IF Len(portParts) > 1 THEN SearchParams(Join(Tail(portParts), "?"))
              ELSE <<>>,
              NameOr(fragment, <<"SS Server">>)))

\* lines 292-305, from hostParts = hostport.split(':'); portWithParams.split
\* throws when there is no ':'.  Buffer.from(userinfo, 'base64') never throws,
\* so the catch block of lines 303-305 is never entered.
SsFromHost(userinfo, hostParts, fragment) ==
  IF Nth(hostParts, 2) = Undefined THEN Throw(TypeErrorSplit)
  ELSE SsFromPort(Split(Base64Decode(userinfo), ":"), hostParts[1],
                  Split(hostParts[2], "?"), fragment)

\* lines 291-292, from atParts = clean.split('@'); hostport.split throws when
\* there is no '@'
SsFromClean(atParts, fragment) ==
  IF Nth(atParts, 2) = Undefined THEN Throw(TypeErrorSplit)
  ELSE SsFromHost(atParts[1], Split(atParts[2], ":"), fragment)

\* lines 288-289, from fragmentIndex = link.indexOf('#') (0: none)
SsFromFragment(link, fragmentIndex) ==
  SsFromClean(
    Split(From(SubSeq(link, 1, IF fragmentIndex # 0 THEN fragmentIndex - 1
                               ELSE Len(link)),
               Len(Lit.ssPrefix) + 1), "@"),
    IF fragmentIndex # 0 THEN From(link, fragmentIndex + 1) ELSE <<>>)

parseSS(link) ==
  IF ~StartsWith(link, Lit.ssPrefix) THEN Throw(<<"Not a Shadowsocks link">>)
  ELSE SsFromFragment(link, IndexOf(link, "#"))

-----------------------------------------------------------------------------
(* parseAnyLink *)

MaxLinkLength == 2000

\* a fault: the length limit off by one
parseAnyLinkOffByOne(link) ==
  IF ~Truthy(link) \/ ~IsString(link) THEN Throw(<<"Link must be a non-empty string">>)
  ELSE IF Len(link) >= MaxLinkLength THEN Throw(<<"Link is too long">>)
  ELSE IF StartsWith(link, Lit.vlessPrefix) THEN parseVLESS(link)
  ELSE IF StartsWith(link, Lit.vmessPrefix) THEN parseVMess(link)
  ELSE IF StartsWith(link, Lit.trojanPrefix) THEN parseTrojan(link)
  ELSE IF StartsWith(link, Lit.ssPrefix) THEN parseSS(link)
  ELSE Throw(<<"Unsupported protocol. Supported: vless, vmess, trojan, ss">>)

parseAnyLink(link) ==
  IF ~Truthy(link) \/ ~IsString(link) THEN Throw(<<"Link must be a non-empty string">>)
  ELSE IF Len(link) > MaxLinkLength THEN Throw(<<"Link is too long">>)
  ELSE IF StartsWith(link, Lit.vlessPrefix) THEN parseVLESS(link)
  ELSE IF StartsWith(link, Lit.vmessPrefix) THEN parseVMess(link)
  ELSE IF StartsWith(link, Lit.trojanPrefix) THEN parseTrojan(link)
  ELSE IF StartsWith(link, Lit.ssPrefix) THEN parseSS(link)
  ELSE Throw(<<"Unsupported protocol. Supported: vless, vmess, trojan, ss">>)

-----------------------------------------------------------------------------
(* Serializers.  A mapping that the code builds (the object given to yaml.dump
   or to JSON.stringify) is a function from its keys to its values; a line
   that the code builds is a text. *)

\* config.field: undefined when the record has no such field
Prop(config, field) ==
  IF field \in DOMAIN config THEN config[field] ELSE Undefined

\* !!config.field of a boolean-or-missing field
Flag(config, field) ==
  IF field \in DOMAIN config THEN config[field] ELSE FALSE

EmptyMap == [k \in {} |-> k]

\* an assignment that happens only under a condition
Opt(cond, key, value) == IF cond THEN key :> value ELSE EmptyMap

RECURSIVE TrimLeft(_)
TrimLeft(s) == IF s # <<>> /\ s[1] = " " THEN TrimLeft(Tail(s)) ELSE s

RECURSIVE TrimRight(_)
TrimRight(s) ==
  IF s # <<>> /\ s[Len(s)] = " " THEN TrimRight(SubSeq(s, 1, Len(s) - 1)) ELSE s

\* String.prototype.trim (the blanks drawn here are spaces)
Trim(s) == TrimRight(TrimLeft(s))

\* alpn.split(',').map(a => a.trim())
AlpnTrimmed(alpn) ==
  [k \in 1..Len(Split(alpn, ",")) |-> Trim(Split(alpn, ",")[k])]

\* alpn.split(',').map(a => a.trim()).filter(a => a)
AlpnTrimmedNonEmpty(alpn) == SelectSeq(AlpnTrimmed(alpn), LAMBDA a : a # <<>>)

BoolText(b) == IF b THEN <<"true">> ELSE <<"false">>

\* the ws keys of toClash, the same in its vless, vmess and trojan cases
ClashWs(config) ==
  IF Prop(config, "network") = Lit.ws
  THEN ("network" :> Lit.ws)
       @@ ("ws-path" :> Or(Prop(config, "path"), Lit.slash))
       @@ Opt(Truthy(Prop(config, "host_header")), "ws-headers",
              [host |-> Prop(config, "host_header")])
  ELSE EmptyMap

ClashTlsCommon(config, sniKey) ==
  Opt(Truthy(Prop(config, "sni")), sniKey, Prop(config, "sni"))
  @@ Opt(Truthy(Prop(config, "alpn")), "alpn", AlpnTrimmed(Prop(config, "alpn")))
  @@ Opt(Truthy(Prop(config, "fp")), "fingerprint", Prop(config, "fp"))

\* the value true inside a mapping whose other values are texts
JsTrue == <<"\\true">>

\* plugin_opts.split(';'): the options mapping of lines 443-456
RECURSIVE PluginOpts(_)
PluginOpts(parts) ==
  IF parts = <<>> THEN EmptyMap
  ELSE LET part == parts[1]
           key == Split(part, "=")[1]
           value == Join(Tail(Split(part, "=")), "=")
           \* a later assignment to the same key wins
           rest == PluginOpts(Tail(parts))
       IN IF part = <<>> THEN rest
          ELSE IF key = Lit.tls THEN rest @@ (key :> JsTrue)
          ELSE IF value # <<>> THEN rest @@ (key :> value)
          ELSE rest

ClashPlugin(config) ==
  IF Truthy(Prop(config, "plugin"))
  THEN LET opts == IF Truthy(Prop(config, "plugin_opts"))
                   THEN PluginOpts(Split(Prop(config, "plugin_opts"), ";")) ELSE EmptyMap
       IN ("plugin" :> Prop(config, "plugin"))
          @@ (IF DOMAIN opts # {} THEN "plugin-opts" :> opts
              ELSE IF Truthy(Prop(config, "obfs"))
              THEN "plugin-opts" :> [mode |-> Prop(config, "obfs"), host |-> Prop(config, "obfsHost")]
              ELSE EmptyMap)
  ELSE EmptyMap

ClashBase(config) ==
  [name |-> config.name, type |-> config.type, server |-> config.host,
   port |-> config.port, udp |-> TRUE]
  @@ ("skip-cert-verify" :> Flag(config, "allowInsecure"))

toClash(config) ==
  IF config.type = Lit.vless
  THEN LET tls == Prop(config, "security") = Lit.tls \/ Prop(config, "security") = Lit.reality
       IN Ok(ClashBase(config)
             @@ [uuid |-> Prop(config, "uuid"), tls |-> tls]
             @@ (IF tls
                 THEN ClashTlsCommon(config, "servername")
                      @@ (IF Prop(config, "security") = Lit.reality
                          THEN ("client-fingerprint" :> Prop(config, "fp"))
                               @@ Opt(Truthy(Prop(config, "pbk")), "public-key", Prop(config, "pbk"))
                               @@ Opt(Truthy(Prop(config, "sid")), "short-id", Prop(config, "sid"))
                               @@ Opt(Truthy(Prop(config, "spx")), "spider-x", Prop(config, "spx"))
                          ELSE Opt(Truthy(Prop(config, "flow")), "flow", Prop(config, "flow")))
                 ELSE EmptyMap)
             @@ ClashWs(config))
  ELSE IF config.type = Lit.vmess
  THEN Ok(ClashBase(config)
          @@ [uuid |-> Prop(config, "uuid"), alterId |-> Prop(config, "alterId"),
              cipher |-> Prop(config, "security"), tls |-> Flag(config, "tls")]
          @@ (IF Flag(config, "tls") THEN ClashTlsCommon(config, "servername")
              ELSE EmptyMap)
          @@ ClashWs(config))
  ELSE IF config.type = Lit.trojan
  THEN Ok(ClashBase(config)
          @@ [password |-> Prop(config, "password"), tls |-> TRUE]
          @@ ClashTlsCommon(config, "sni")
          @@ ClashWs(config))
  ELSE IF config.type = Lit.ss
  THEN Ok(ClashBase(config)
          @@ [cipher |-> Prop(config, "method"), password |-> Prop(config, "password")]
          @@ ClashPlugin(config))
  ELSE Throw(<<"Tidak dapat mengkonversi protokol '">> \o Show(config.type)
             \o <<"' ke format Clash.">>)

\* the ws options of a line, the same for the three schemes that have them
LineWs(config, headerKey) ==
  IF Prop(config, "network") = Lit.ws
  THEN <<", ws=true, ws-path=">> \o Show(Prop(config, "path"))
       \o (IF Truthy(Prop(config, "host_header"))
           THEN <<", ", headerKey, "=host:">> \o Prop(config, "host_header")
           ELSE <<>>)
  ELSE <<>>

LineAlpnFp(config, fpKey) ==
  (IF Truthy(Prop(config, "alpn")) THEN <<", alpn=">> \o Prop(config, "alpn") ELSE <<>>)
  \o (IF Truthy(Prop(config, "fp")) THEN <<", ", fpKey, "=">> \o Prop(config, "fp")
      ELSE <<>>)

LineFlow(config) ==
  IF Truthy(Prop(config, "flow")) THEN <<", flow=">> \o Prop(config, "flow") ELSE <<>>

SkipCertVerify(config) == <<"skip-cert-verify=">> \o BoolText(Flag(config, "allowInsecure"))

SurgeFp == "server-cert-fingerprint-sha256"

\* a fault: a serializer that numbers its calls, so its output depends on the
\* calls made before
toSurgeCounting(config) ==
  Ok(config.name \o <<" = call ">> \o NatToStr(i))

toSurge(config) ==
  IF config.type = Lit.vless
  THEN Ok(config.name \o <<" = vless, ">> \o Show(config.host) \o <<", ">>
          \o NumToStr(config.port) \o <<", username=">> \o Show(Prop(config, "uuid"))
          \o <<", ">> \o SkipCertVerify(config)
          \o (IF Prop(config, "security") = Lit.tls
              THEN <<", tls=true, sni=">> \o Show(Prop(config, "sni"))
                   \o LineAlpnFp(config, SurgeFp)
              ELSE IF Prop(config, "security") = Lit.reality
              THEN <<", tls=true, sni=">> \o Show(Prop(config, "sni"))
              ELSE <<>>)
          \o LineFlow(config)
          \o LineWs(config, "ws-headers"))
  ELSE IF config.type = Lit.vmess
  THEN Ok(config.name \o <<" = vmess, ">> \o Show(config.host) \o <<", ">>
          \o NumToStr(config.port) \o <<", username=">> \o Show(Prop(config, "uuid"))
          \o <<", ">> \o SkipCertVerify(config)
          \o (IF Flag(config, "tls")
              THEN <<", tls=true, sni=">> \o Show(Prop(config, "sni"))
                   \o LineAlpnFp(config, SurgeFp)
              ELSE <<>>)
          \o LineWs(config, "ws-headers"))
  ELSE IF config.type = Lit.trojan
  THEN Ok(config.name \o <<" = trojan, ">> \o Show(config.host) \o <<", ">>
          \o NumToStr(config.port) \o <<", password=">> \o Show(Prop(config, "password"))
          \o <<", ">> \o SkipCertVerify(config)
          \o <<", sni=">> \o Show(Prop(config, "sni"))
          \o LineAlpnFp(config, SurgeFp)
          \o LineWs(config, "ws-headers"))
  ELSE IF config.type = Lit.ss
  THEN Ok(config.name
          \o (IF Truthy(Prop(config, "plugin")) THEN <<" = custom, ">> ELSE <<" = ss, ">>)
          \o Show(config.host) \o <<", ">> \o NumToStr(config.port) \o <<", ">>
          \o Show(Prop(config, "method")) \o <<", ">> \o Show(Prop(config, "password"))
          \o (IF Truthy(Prop(config, "plugin"))
              THEN <<", https://raw.githubusercontent.com/ConnersHua/SSEncrypt/master/SSEncrypt.module">>
              ELSE <<>>))
  ELSE Throw(<<"Unsupported type for Surge: ">> \o Show(config.type))

QuantumultFp == "tls-cert-sha256"

\* vless and vmess share the line type vmess and method=none
QuantumultVmessLine(config, tlsPart) ==
  <<"vmess=">> \o Show(config.host) \o <<":">> \o NumToStr(config.port)
  \o <<", method=none, password=">> \o Show(Prop(config, "uuid")) \o <<", ">>
  \o SkipCertVerify(config) \o tlsPart

toQuantumult(config) ==
  IF config.type = Lit.vless
  THEN Ok(QuantumultVmessLine(config,
            IF Prop(config, "security") = Lit.tls
            THEN <<", tls=true, sni=">> \o Show(Prop(config, "sni"))
                 \o LineAlpnFp(config, QuantumultFp)
            ELSE IF Prop(config, "security") = Lit.reality
            THEN <<", tls=true, sni=">> \o Show(Prop(config, "sni"))
            ELSE <<>>)
          \o LineFlow(config)
          \o LineWs(config, "ws-header")
          \o <<", tag=">> \o config.name)
  ELSE IF config.type = Lit.vmess
  THEN Ok(QuantumultVmessLine(config,
            IF Flag(config, "tls")
            THEN <<", tls=true, sni=">> \o Show(Prop(config, "sni"))
                 \o LineAlpnFp(config, QuantumultFp)
            ELSE <<>>)
          \o LineWs(config, "ws-header")
          \o <<", tag=">> \o config.name)
  ELSE IF config.type = Lit.trojan
  THEN Ok(<<"trojan=">> \o Show(config.host) \o <<":">> \o NumToStr(config.port)
          \o <<", password=">> \o Show(Prop(config, "password")) \o <<", ">>
          \o SkipCertVerify(config)
          \o <<", over-tls=true, tls-host=">> \o Show(Prop(config, "sni"))
          \o LineAlpnFp(config, QuantumultFp)
          \o LineWs(config, "ws-header")
          \o <<", tag=">> \o config.name)
  ELSE IF config.type = Lit.ss
  THEN Ok(<<"shadowsocks=">> \o Show(config.host) \o <<":">> \o NumToStr(config.port)
          \o <<", method=">> \o Show(Prop(config, "method"))
          \o <<", password=">> \o Show(Prop(config, "password"))
          \o <<", encrypt-method=">> \o Show(Prop(config, "method"))
          \o <<", password=">> \o Show(Prop(config, "password"))
          \o (IF Truthy(Prop(config, "obfs"))
              THEN <<", obfs=">> \o Prop(config, "obfs")
                   \o <<", obfs-host=">> \o Show(Prop(config, "obfsHost"))
              ELSE <<>>)
          \o <<", tag=">> \o config.name)
  ELSE Throw(<<"Unsupported type for Quantumult: ">> \o Show(config.type))

\* the transport object of toSingBox: ws, then grpc (the later assignment wins;
\* the two conditions exclude each other)
SingBoxWs(config) ==
  Opt(Prop(config, "network") = Lit.ws, "transport",
      [type |-> Lit.ws, path |-> Or(Prop(config, "path"), Lit.slash),
       headers |-> IF Truthy(Prop(config, "host_header"))
                   THEN [host |-> Prop(config, "host_header")] ELSE EmptyMap])

SingBoxGrpc(config) ==
  Opt(Prop(config, "network") = Lit.grpc, "transport",
      [type |-> Lit.grpc, service_name |-> Or(Prop(config, "serviceName"), <<>>)])

SingBoxAlpn(config) ==
  Opt(Truthy(Prop(config, "alpn")), "alpn", AlpnTrimmedNonEmpty(Prop(config, "alpn")))

SingBoxUtls(config) == [enabled |-> TRUE, fingerprint |-> Or(Prop(config, "fp"), Lit.chrome)]

\* lines 613-635: the tls object of a vless or vmess record
SingBoxTls(config) ==
  IF Prop(config, "security") = Lit.none /\ ~Flag(config, "tls")
  THEN [enabled |-> FALSE]
  ELSE IF \/ Prop(config, "security") = Lit.tls
          \/ Prop(config, "security") = Lit.reality
          \/ Flag(config, "tls")
  THEN [enabled |-> TRUE,
        server_name |-> Or(Prop(config, "sni"), config.host),
        insecure |-> Flag(config, "allowInsecure")]
       @@ SingBoxAlpn(config)
       @@ (IF Prop(config, "security") = Lit.reality
           THEN [utls |-> SingBoxUtls(config),
                 reality |-> [enabled |-> TRUE, public_key |-> Prop(config, "pbk"),
                              short_id |-> Prop(config, "sid")],
                 flow |-> Or(Prop(config, "flow"), <<>>)]
           ELSE IF Prop(config, "security") = Lit.tls
           THEN [utls |-> SingBoxUtls(config)]
                @@ Opt(Truthy(Prop(config, "flow")), "flow", Prop(config, "flow"))
           ELSE EmptyMap)
  ELSE [enabled |-> FALSE]

\* toSingBox has no case that throws: a record of an unknown type gives the
\* base object alone
toSingBox(config) ==
  LET base == [tag |-> config.name,
               type |-> IF config.type = Lit.ss THEN Lit.shadowsocks ELSE config.type,
               server |-> config.host,
               server_port |-> config.port]
  IN IF config.type = Lit.vless \/ config.type = Lit.vmess
     THEN Ok(base
             @@ ("uuid" :> Prop(config, "uuid"))
             @@ Opt(config.type = Lit.vmess, "alter_id", Prop(config, "alterId"))
             @@ SingBoxGrpc(config) @@ SingBoxWs(config)
             @@ ("tls" :> SingBoxTls(config)))
     ELSE IF config.type = Lit.trojan
     THEN Ok(base
             @@ ("password" :> Prop(config, "password"))
             @@ SingBoxWs(config)
             @@ ("tls" :> ([enabled |-> TRUE,
                            server_name |-> Or(Prop(config, "sni"), config.host),
                            insecure |-> Flag(config, "allowInsecure"),
                            utls |-> SingBoxUtls(config)]
                           @@ SingBoxAlpn(config))))
     ELSE IF config.type = Lit.ss
     THEN Ok(base
             @@ [method |-> Prop(config, "method"), password |-> Prop(config, "password")]
             @@ (IF Truthy(Prop(config, "plugin"))
                 THEN ("plugin" :> Prop(config, "plugin"))
                      @@ Opt(Truthy(Prop(config, "plugin_opts")), "plugin_opts",
                             Prop(config, "plugin_opts"))
                 ELSE EmptyMap))
     ELSE Ok(base)

-----------------------------------------------------------------------------
(* processLinks *)

\* the default of the parameter startIndex; no caller passes another value
startIndex == 0

TagSuffix == <<" [vortexVpn]">>

\* !r.error (an error message is never empty)
IsSuccess(entry) == "error" \notin DOMAIN entry

\* a fault: the tag numbered by the successes so far, not by the position
ConfigNameBySuccesses(parsed, index) ==
  Or(parsed.name, <<"Proxy Server">>) \o <<"-">>
  \o NatToStr(Cardinality({k \in 1..Len(results) : IsSuccess(results[k])}) + 1)
  \o TagSuffix

\* lines 714-715
ConfigName(parsed, index) ==
  Or(parsed.name, <<"Proxy Server">>) \o <<"-">> \o NatToStr(startIndex + index + 1)
  \o TagSuffix

\* lines 717-721: { ...parsed, name: configName, network: parsed.network || 'tcp' }
Config(parsed, index) ==
  [f \in DOMAIN parsed \cup {"name", "network"} |->
     IF f = "name" THEN ConfigName(parsed, index)
     ELSE IF f = "network" THEN Or(Prop(parsed, "network"), Lit.tcp)
     ELSE parsed[f]]

\* lines 723-735: the four serializers are called in this order, and the first
\* that throws ends the try block
Entry(link, config, clash, surge, quantumult, singbox) ==
  IF ~clash.ok THEN clash
  ELSE IF ~surge.ok THEN surge
  ELSE IF ~quantumult.ok THEN quantumult
  ELSE IF ~singbox.ok THEN singbox
  ELSE Ok([original |-> config,
           formats |-> [clash |-> clash.rec, surge |-> surge.rec,
                        quantumult |-> quantumult.rec, singbox |-> singbox.rec],
           link |-> link,
           tag |-> config.name])

Serialized(link, config) ==
  Entry(link, config, toClash(config), toSurge(config), toQuantumult(config),
        toSingBox(config))

Converted(link, index, parsed) ==
  IF ~parsed.ok THEN parsed ELSE Serialized(link, Config(parsed.rec, index))

\* the body of the try block for the link at (0-based) index: the entry it
\* pushes, or the error it throws
Convert(link, index) == Converted(link, index, parseAnyLink(link))

\* the entry the catch block pushes
FailureEntry(link, message) == [error |-> message, link |-> link]

\* the catch block first logs singleLink.substring(0, 50): a link that is no
\* text has no such method, and the TypeError leaves processLinks
CatchThrows(link) == ~IsString(link)

\* one iteration whose try block completes
IterateSuccess ==
  /\ pc = "loop"
  /\ i < Len(links)
  /\ Convert(links[i + 1], i).ok
  /\ results' = Append(results, Convert(links[i + 1], i).rec)
  /\ i' = i + 1
  /\ UNCHANGED <<links, pc>>
  /\ UNCHANGED <<templates, rawInput, health, logs>>

\* a fault: a failing link is skipped and leaves no entry
IterateFailureSkips ==
  /\ pc = "loop"
  /\ i < Len(links)
  /\ ~Convert(links[i + 1], i).ok
  /\ ~CatchThrows(links[i + 1])
  /\ i' = i + 1
  /\ UNCHANGED <<links, results, pc>>
  /\ UNCHANGED <<templates, rawInput, health, logs>>

\* one iteration whose try block throws and whose catch block completes
IterateFailure ==
  /\ pc = "loop"
  /\ i < Len(links)
  /\ ~Convert(links[i + 1], i).ok
  /\ ~CatchThrows(links[i + 1])
  /\ results' = Append(results, FailureEntry(links[i + 1], Convert(links[i + 1], i).err))
  /\ i' = i + 1
  /\ UNCHANGED <<links, pc>>
  /\ UNCHANGED <<templates, rawInput, health, logs>>

\* one iteration whose catch block throws: the promise of processLinks rejects
IterateRejects ==
  /\ pc = "loop"
  /\ i < Len(links)
  /\ ~Convert(links[i + 1], i).ok
  /\ CatchThrows(links[i + 1])
  /\ pc' = "rejected"
  /\ UNCHANGED <<links, i, results>>
  /\ UNCHANGED <<templates, rawInput, health, logs>>

\* return results
Return ==
  /\ pc = "loop"
  /\ i = Len(links)
  /\ pc' = "returned"
  /\ UNCHANGED <<links, i, results>>
  /\ UNCHANGED <<templates, rawInput, health, logs>>

-----------------------------------------------------------------------------
(* TemplateSystem and the convert handler.  The template files are not part
   of the sources: a template is known by the path it was compiled from, and
   a rendered document by its template and the data bound to it. *)

stdTTL == 3600

Basic == "basic"

SupportedFormats == {"clash", "surge", "quantumult", "singbox"}

\* lines 49-56
ExtensionMap ==
  [clash |-> "yaml.hbs", singbox |-> "json.hbs", surge |-> "ini.hbs", quantumult |-> "ini.hbs"]

\* path.join(this.templatesDir, format, templateName)
TemplatePath(format, level) ==
  <<format, "/", level, ".",
    IF format \in DOMAIN ExtensionMap THEN ExtensionMap[format] ELSE "hbs">>

CacheKey(format, level) == <<format, ":", level>>

\* this.cache.has(cacheKey): an entry is there until its time to live is over
Has(key) == key \in DOMAIN cache /\ now <= cache[key].expires

\* Handlebars.compile(source), source read from path
Compile(path) == [source |-> path]

\* template(data)
Render(template, data) == [template |-> template.source, data |-> data]

\* the message of the error of fs.readFile
ReadError(path) == <<"ENOENT: no such file or directory, open ">> \o path

\* line 75
LoadError(format, level, message) ==
  <<"Template for ", format, " at level ", level,
    " could not be loaded. Original error: ">> \o message

RECURSIVE ResultsOf(_, _)
\* the results of processLinks after its first k iterations
ResultsOf(input, k) ==
  IF k = 0 THEN <<>>
  ELSE Append(ResultsOf(input, k - 1),
              IF Convert(input[k], k - 1).ok THEN Convert(input[k], k - 1).rec
              ELSE FailureEntry(input[k], Convert(input[k], k - 1).err))

\* processLinks rejects: the catch block throws for some link
Rejects(input) ==
  \E k \in 1..Len(input) : ~Convert(input[k], k - 1).ok /\ CatchThrows(input[k])

\* the TypeError of singleLink.substring on a link that is no text
SubstringError == <<"singleLink.substring is not a function">>

\* lines 887-929: the data bound to the template
Data(format, valid) ==
  IF format = "singbox"
  THEN [outbounds |-> [k \in 1..Len(valid) |-> valid[k].formats.singbox],
        proxyNames |-> [k \in 1..Len(valid) |-> valid[k].tag],
        timestamp |-> now,
        version |-> <<"1.0.0">>]
  ELSE [proxies |-> [k \in 1..Len(valid) |-> valid[k].formats[format]],
        proxyNames |-> [k \in 1..Len(valid) |-> valid[k].original.name],
        timestamp |-> now]
       @@ (IF format = "clash" THEN [version |-> <<"1.0.0">>] ELSE <<>>)

\* lines 779-785
AllFailed(failed) ==
  <<"Semua link gagal dikonversi:\n\n">>
  \o Join([k \in 1..Len(failed) |->
             <<"Link: ">> \o Show(failed[k].link) \o <<"\nError: ">> \o failed[k].error],
          "\n\n")

\* a request that has been answered
Responded(request, status, body) ==
  [request EXCEPT !.pc = "responded", !.doneAt = now,
                  !.response = [status |-> status, body |-> body]]

\* lines 774-778
Document(request, template) ==
  [Responded(request, 200, Render(template, request.data))
     EXCEPT !.response = @ @@ [level |-> request.level, processed |-> Len(request.data.proxyNames)]]

\* loadTemplate(format, level) up to its await: the cached template, or the
\* read of the template's source begins
Load(request, level) ==
  IF Has(CacheKey(request.format, level))
  THEN Document(request, cache[CacheKey(request.format, level)].template)
  ELSE [request EXCEPT !.pc = "reading", !.cur = level, !.reads = @ + 1]

\* lines 763-786, from results
Answered(request, input) ==
  IF SelectSeq(input, IsSuccess) # <<>>
  THEN Load([request EXCEPT !.data = Data(request.format, SelectSeq(input, IsSuccess))],
            request.level)
  ELSE Responded(request, 400, AllFailed(input))

\* lines 746-790, up to the first await that suspends
Handled(request) ==
  IF request.format \notin SupportedFormats
  THEN Responded(request, 400,
         <<"Format tidak didukung. Gunakan: clash, surge, quantumult, singbox">>)
  ELSE IF request.links = <<>>
  THEN Responded(request, 400, <<"Input link tidak valid atau kosong.">>)
  ELSE IF Rejects(request.links) THEN Responded(request, 500, SubstringError)
  ELSE Answered(request, ResultsOf(request.links, Len(request.links)))

\* a request arrives and is handled up to its answer or to the read of a
\* template
Handle(r) ==
  /\ requests[r].pc = "new"
  /\ requests' = [requests EXCEPT ![r] = Handled([requests[r] EXCEPT !.at = now])]
  /\ UNCHANGED <<files, cache, now>>
  /\ UNCHANGED <<batch, rawInput, health, logs>>

\* a fault: the compiled template is returned but never stored
ReadResolvesNoStore(r) ==
  /\ requests[r].pc = "reading"
  /\ TemplatePath(requests[r].format, requests[r].cur) \in files
  /\ requests' = [requests EXCEPT ![r] =
                    Document(@, Compile(TemplatePath(requests[r].format, requests[r].cur)))]
  /\ UNCHANGED <<files, cache, now>>
  /\ UNCHANGED <<batch, rawInput, health, logs>>

\* a fault: the store replaces the cache by the one new entry
ReadResolvesClears(r) ==
  /\ requests[r].pc = "reading"
  /\ TemplatePath(requests[r].format, requests[r].cur) \in files
  /\ cache' = [key \in {CacheKey(requests[r].format, requests[r].cur)} |->
                 [template |-> Compile(TemplatePath(requests[r].format, requests[r].cur)),
                  expires |-> now + stdTTL]]
  /\ requests' = [requests EXCEPT ![r] =
                    Document(@, Compile(TemplatePath(requests[r].format, requests[r].cur)))]
  /\ UNCHANGED <<files, now>>
  /\ UNCHANGED <<batch, rawInput, health, logs>>

\* lines 60-64: the source is read, compiled and cached, and the document sent
ReadResolves(r) ==
  /\ requests[r].pc = "reading"
  /\ TemplatePath(requests[r].format, requests[r].cur) \in files
  /\ cache' = [key \in DOMAIN cache \cup {CacheKey(requests[r].format, requests[r].cur)} |->
                 IF key = CacheKey(requests[r].format, requests[r].cur)
                 THEN [template |-> Compile(TemplatePath(requests[r].format, requests[r].cur)),
                       expires |-> now + stdTTL]
                 ELSE cache[key]]
  /\ requests' = [requests EXCEPT ![r] =
                    Document(@, Compile(TemplatePath(requests[r].format, requests[r].cur)))]
  /\ UNCHANGED <<files, now>>
  /\ UNCHANGED <<batch, rawInput, health, logs>>

\* a fault: no fallback, the failure of the requested level is the answer
ReadFallsBackThrows(r) ==
  /\ requests[r].pc = "reading"
  /\ TemplatePath(requests[r].format, requests[r].cur) \notin files
  /\ requests[r].cur # Basic
  /\ requests' = [requests EXCEPT ![r] =
                    Responded(@, 500,
                      LoadError(requests[r].format, requests[r].cur,
                                ReadError(TemplatePath(requests[r].format, requests[r].cur))))]
  /\ UNCHANGED <<files, cache, now>>
  /\ UNCHANGED <<batch, rawInput, health, logs>>

\* lines 65-72: the read fails for a level that is not basic, and
\* loadTemplate(format, 'basic') runs up to its await
ReadFallsBack(r) ==
  /\ requests[r].pc = "reading"
  /\ TemplatePath(requests[r].format, requests[r].cur) \notin files
  /\ requests[r].cur # Basic
  /\ requests' = [requests EXCEPT ![r] = Load(@, Basic)]
  /\ UNCHANGED <<files, cache, now>>
  /\ UNCHANGED <<batch, rawInput, health, logs>>

\* a fault: the failure of the basic template is answered by one more load of it
ReadThrowsRetries(r) ==
  /\ requests[r].pc = "reading"
  /\ TemplatePath(requests[r].format, requests[r].cur) \notin files
  /\ requests[r].cur = Basic
  /\ requests' = [requests EXCEPT ![r] = Load(@, Basic)]
  /\ UNCHANGED <<files, cache, now>>
  /\ UNCHANGED <<batch, rawInput, health, logs>>

\* lines 65-75 and 787-790: the read of the basic template fails, loadTemplate
\* throws and the handler answers with the message
ReadThrows(r) ==
  /\ requests[r].pc = "reading"
  /\ TemplatePath(requests[r].format, requests[r].cur) \notin files
  /\ requests[r].cur = Basic
  /\ requests' = [requests EXCEPT ![r] =
                    Responded(@, 500,
                      LoadError(requests[r].format, requests[r].cur,
                                ReadError(TemplatePath(requests[r].format, requests[r].cur))))]
  /\ UNCHANGED <<files, cache, now>>
  /\ UNCHANGED <<batch, rawInput, health, logs>>

MaxTicks == 3

\* time passes, half a time to live at a time
Tick ==
  /\ now < MaxTicks * (stdTTL \div 2)
  /\ now' = now + stdTTL \div 2
  /\ UNCHANGED <<files, cache, requests>>
  /\ UNCHANGED <<batch, rawInput, health, logs>>

-----------------------------------------------------------------------------
(* The links drawn as inputs *)

MaxBatch == 3
MaxSecretLen == 2

RECURSIVE SeqsUpTo(_, _)
\* the sequences over S of length at most n
SeqsUpTo(S, n) ==
  IF n = 0 THEN {<<>>}
  ELSE SeqsUpTo(S, n - 1)
       \cup {Append(t, x) : t \in {u \in SeqsUpTo(S, n - 1) : Len(u) = n - 1}, x \in S}

\* the characters of the passwords and methods that are drawn
SecretChars == {"p", "@", "#", "%", ":"}
Secrets == SeqsUpTo(SecretChars, MaxSecretLen)

\* the password of the test of parseTrojan (src/converter.test.js)
TestPassword == <<"p","@","s","s","#","w","o","r","d">>
Passwords == Secrets \cup {TestPassword}

h_example == <<"e","x",".","c","o","m">>
p_443 == <<"4","4","3">>
u_id == <<"u","u","-","1">>

\* host:port texts: well-formed, and with the host or the port missing, no
\* number, or out of 1..65535
HostPorts ==
  {h_example \o <<":">> \o p_443,
   h_example,
   h_example \o <<":">>,
   <<":">> \o p_443,
   h_example \o <<":","0">>,
   h_example \o <<":","6","5","5","3","6">>,
   h_example \o <<":","-","1">>,
   h_example \o <<":","8","x">>,
   h_example \o <<":","x">>}

GoodHostPort == h_example \o <<":">> \o p_443

\* "?query" parts (<<>>: none)
Queries ==
  {<<>>,
   <<"?","s","e","c","u","r","i","t","y","=","t","l","s","&","t","y","p","e","=","w","s","&","h","o","s","t","=","w",".","x","&","a","l","p","n","=","h","2",","," ",",","h","t","t","p","/","1",".","1">>,
   <<"?","s","e","c","u","r","i","t","y","=","r","e","a","l","i","t","y","&","p","b","k","=","k","&","s","i","d","=","1","&","s","n","i","=","s",".","x","&","f","p","=","f","f","&","f","l","o","w","=","f","&","a","l","l","o","w","I","n","s","e","c","u","r","e","=","1">>,
   <<"?","t","y","p","e","=","g","r","p","c","&","p","a","t","h","=","%","z","z">>}

\* "#fragment" parts (<<>>: none)
Fragments ==
  {<<>>, <<"#","M","y","%","2","0","N","a","m","e">>, <<"#","a","%">>, <<"#">>}

SsQueries ==
  {<<>>,
   <<"?","p","l","u","g","i","n","=","o","b","f","s","-","l","o","c","a","l","%","3","B","o","b","f","s","%","3","D","h","t","t","p","%","3","B","o","b","f","s","-","h","o","s","t","%","3","D","e","x",".","c","o","m">>,
   <<"?","p","l","u","g","i","n","=","v","2","r","a","y","-","p","l","u","g","i","n","%","3","B","t","l","s","%","3","B","m","u","x","&","o","b","f","s","=","h","t","t","p","&","o","b","f","s","-","h","o","s","t","=","o",".","x">>,
   <<"?","p","l","u","g","i","n","=","s","i","m","p","l","e","-","o","b","f","s","&","o","b","f","s","=","t","l","s","&","o","b","f","s","-","h","o","s","t","=","o",".","x">>}

VlessLink(uuid, hostport, query, fragment) ==
  Lit.vlessPrefix \o uuid \o <<"@">> \o hostport \o query \o fragment

TrojanLink(passwordSegment, hostport, query, fragment) ==
  Lit.trojanPrefix \o passwordSegment \o <<"@">> \o hostport \o query \o fragment

SsLink(userinfo, hostport, query, fragment) ==
  Lit.ssPrefix \o userinfo \o <<"@">> \o hostport \o query \o fragment

VmessLink(payload) == Lit.vmessPrefix \o payload

\* queries with and without the sni and host parameters
SniQueries ==
  {<<"?","s","e","c","u","r","i","t","y","=","t","l","s">>,
   <<"?","s","e","c","u","r","i","t","y","=","r","e","a","l","i","t","y","&","p","b","k","=","k">>,
   <<"?","s","e","c","u","r","i","t","y","=","t","l","s","&","h","o","s","t","=","w",".","x">>,
   <<"?","s","e","c","u","r","i","t","y","=","t","l","s","&","s","n","i","=","s",".","x","&","h","o","s","t","=","w",".","x">>,
   <<"?","s","e","c","u","r","i","t","y","=","t","l","s","&","h","o","s","t","=","w",".","x","&","s","n","i","=","s",".","x">>}

VlessLinks ==
  {VlessLink(u, hp, <<>>, <<>>) : u \in {u_id, <<>>}, hp \in HostPorts}
  \cup {VlessLink(u_id, GoodHostPort, q, f) : q \in Queries, f \in Fragments}
  \cup {VlessLink(u_id, GoodHostPort, q, <<>>) : q \in SniQueries}
  \cup {Lit.vlessPrefix \o u_id, Lit.vlessPrefix}

TrojanLinks ==
  {TrojanLink(encodeURIComponent(s), GoodHostPort, q, f) :
     s \in Passwords, q \in {<<>>, <<"?","s","n","i","=","s",".","x">>}, f \in {<<>>, <<"#","n">>}}
  \cup {TrojanLink(<<"p">>, hp, <<>>, <<>>) : hp \in HostPorts}
  \cup {TrojanLink(<<"p">>, GoodHostPort, q, f) : q \in Queries, f \in Fragments}
  \cup {TrojanLink(<<"p">>, GoodHostPort, <<"#","n">>, <<"?","t","y","p","e","=","w","s">>),
        TrojanLink(<<"p","%","z">>, GoodHostPort, <<>>, <<>>),
        Lit.trojanPrefix \o <<"p">>}

\* userinfo texts that are no base64
BadBase64 == {<<"!","!","!">>, <<"a",".","b","*","c">>, <<"b","T","p","w","=","x">>}

\* plugin parameters name;k1=v1;...;kn=vn, by their name and options
PluginCases ==
  {[name |-> <<"o","b","f","s","-","l","o","c","a","l">>, options |-> <<<<<<"o","b","f","s">>, <<"h","t","t","p">>>>, <<<<"o","b","f","s","-","h","o","s","t">>, <<"e","x","a","m","p","l","e",".","c","o","m">>>>>>],
   [name |-> <<"v","2","r","a","y","-","p","l","u","g","i","n">>, options |-> <<<<<<"m","o","d","e">>, <<"w","e","b","s","o","c","k","e","t">>>>, <<<<"p","a","t","h">>, <<"/","a","=","b">>>>>>],
   [name |-> <<"p">>, options |-> <<<<<<"t","l","s">>, <<"0">>>>>>],
   [name |-> <<"p">>, options |-> <<<<<<"k">>, <<>>>>, <<<<"m">>, <<"1">>>>>>],
   [name |-> <<"p">>, options |-> <<<<<<"k">>, <<"1">>>>, <<<<"k">>, <<"2">>>>>>],
   [name |-> <<"p">>, options |-> <<>>]}

\* the text name;k1=v1;...;kn=vn
PluginText(c) ==
  Join(<<c.name>> \o [j \in 1..Len(c.options) |-> c.options[j][1] \o <<"=">> \o c.options[j][2]],
       ";")

PluginLink(c) ==
  SsLink(Base64Encode(<<"a","e","s",":","p","w">>), GoodHostPort,
         <<"?","p","l","u","g","i","n","=">> \o encodeURIComponent(PluginText(c)), <<>>)

SsLinks ==
  {PluginLink(c) : c \in PluginCases} \cup
  {SsLink(Base64Encode(<<"m", ":">> \o s), GoodHostPort, <<>>, <<>>) : s \in Secrets}
  \cup {SsLink(ui, hp, <<>>, <<>>) :
          ui \in {Base64Encode(<<"a","e","s",":","p","w">>), <<>>}, hp \in HostPorts}
  \cup {SsLink(ui, GoodHostPort, <<>>, f) : ui \in BadBase64, f \in {<<>>, <<"#","n">>}}
  \cup {SsLink(Base64Encode(<<"a","e","s",":","p","w">>), GoodHostPort, q, f) :
          q \in SsQueries, f \in Fragments}
  \cup {Lit.ssPrefix \o Base64Encode(<<"a","e","s",":","p","w","@","e","x",".","c","o","m",":","4","4","3">>)}

\* vmess payloads before base64: flat JSON objects, and texts that are no JSON
VmessJson ==
  {<<"{","\"","a","d","d","\"",":","\"","e","x",".","c","o","m","\"",",","\"","p","o","r","t","\"",":","\"","4","4","3","\"",",","\"","i","d","\"",":","\"","u","u","-","1","\"","}">>,
   <<"{","\"","a","d","d","\"",":","\"","e","x",".","c","o","m","\"",",","\"","p","o","r","t","\"",":","\"","4","4","3","\"",",","\"","i","d","\"",":","\"","u","u","-","1","\"",",","\"","t","y","p","e","\"",":","\"","n","o","n","e","\"",",","\"","p","s","\"",":","\"","M","y","%","2","0","N","a","m","e","\"","}">>,
   <<"{","\"","a","d","d","\"",":","\"","e","x",".","c","o","m","\"",",","\"","p","o","r","t","\"",":","\"","4","4","3","\"",",","\"","i","d","\"",":","\"","u","u","-","1","\"",",","\"","t","y","p","e","\"",":","\"","v","m","e","s","s","\"",",","\"","n","e","t","\"",":","\"","w","s","\"",",","\"","t","l","s","\"",":","\"","t","l","s","\"","}">>,
   <<"{","\"","a","d","d","\"",":","\"","e","x",".","c","o","m","\"",",","\"","p","o","r","t","\"",":","\"","4","4","3","\"",",","\"","i","d","\"",":","\"","u","u","-","1","\"",",","\"","t","y","p","e","\"",":","\"","v","m","e","s","s","\"",",","\"","a","i","d","\"",":","\"","2","\"",",","\"","p","s","\"",":","\"","a","%","\"","}">>,
   <<"{","\"","a","d","d","\"",":","\"","e","x",".","c","o","m","\"",",","\"","p","o","r","t","\"",":","\"","4","4","3","\"",",","\"","i","d","\"",":","\"","u","u","-","1","\"",",","\"","t","y","p","e","\"",":","\"","v","l","e","s","s","\"","}">>,
   <<"{","\"","a","d","d","\"",":","\"","e","x",".","c","o","m","\"",",","\"","p","o","r","t","\"",":","\"","x","\"",",","\"","i","d","\"",":","\"","u","u","-","1","\"",",","\"","t","y","p","e","\"",":","\"","v","m","e","s","s","\"","}">>,
   <<"{","\"","p","o","r","t","\"",":","\"","4","4","3","\"",",","\"","i","d","\"",":","\"","u","u","-","1","\"",",","\"","t","y","p","e","\"",":","\"","v","m","e","s","s","\"","}">>,
   <<"{","\"","a","d","d","\"",":","\"","e","x",".","c","o","m","\"",",","\"","p","o","r","t","\"",":","\"","4","4","3","\"",",","\"","t","y","p","e","\"",":","\"","v","m","e","s","s","\"","}">>,
   <<"{","\"","a","d","d","\"",":","\"","e","x",".","c","o","m","\"",",","\"","p","o","r","t","\"",":","\"","0","\"",",","\"","i","d","\"",":","\"","u","u","-","1","\"",",","\"","t","y","p","e","\"",":","\"","v","m","e","s","s","\"","}">>,
   <<"{","\"","a","d","d","\"",":","\"","e","x",".","c","o","m","\"",",","\"","p","o","r","t","\"",":","\"","4","4","3","\"",",","\"","i","d","\"",":","\"","u","u","-","1","\"",",","\"","t","y","p","e","\"",":","\"","v","m","e","s","s","\"",",","\"","s","c","\"",":","\"","t","l","s","\"","}">>,
   <<"{", "}">>,
   <<"{","\"","a","d","d","\"",":","\"","e","x",".","c","o","m","\"">>,
   <<"n","o","t"," ","j","s","o","n">>}

VmessLinks ==
  {VmessLink(Base64Encode(j)) : j \in VmessJson}
  \cup {VmessLink(<<"!","!","!">>), Lit.vmessPrefix}

\* a link of exactly n characters with a valid shape: the host is padded
LongLink(prefix, n) ==
  LET head == prefix \o <<"p","@">>
      tail == <<":">> \o p_443
  IN head \o [k \in 1..(n - Len(head) - Len(tail)) |-> "a"] \o tail

LongLinks ==
  {LongLink(pre, n) : pre \in {Lit.trojanPrefix, Lit.vlessPrefix, <<"h","t","t","p",":","/","/">>},
                      n \in {MaxLinkLength, MaxLinkLength + 1}}

OtherInputs ==
  {<<>>, JsNull, JsNumber, Undefined,
   <<"h","t","t","p",":","/","/","e","x",".","c","o","m">>, <<"v","l","e","s","s",":","/">>, <<"V","L","E","S","S",":","/","/","u","u","-","1","@","e","x",".","c","o","m",":","4","4","3">>,
   <<" ","t","r","o","j","a","n",":","/","/","p","@","e","x",".","c","o","m",":","4","4","3">>}

AllLinks == VlessLinks \cup VmessLinks \cup TrojanLinks \cup SsLinks \cup LongLinks
            \cup OtherInputs

\* the links that batches of several links are made of
BatchLinks ==
  {VlessLink(u_id, GoodHostPort, <<>>, <<>>),
   TrojanLink(<<"p">>, GoodHostPort, <<>>, <<"#","n">>),
   SsLink(Base64Encode(<<"a","e","s",":","p","w">>), GoodHostPort, <<>>, <<>>),
   VmessLink(Base64Encode(<<"{","\"","a","d","d","\"",":","\"","e","x",".","c","o","m","\"",",","\"","p","o","r","t","\"",":","\"","4","4","3","\"",",","\"","i","d","\"",":","\"","u","u","-","1","\"","}">>)),
   <<"h","t","t","p",":","/","/","e","x",".","c","o","m">>,
   <<>>,
   JsNull}

Batches == SeqsUpTo(BatchLinks, MaxBatch) \cup {<<l>> : l \in AllLinks}

MaxTokens == 3

\* the tokens of the link parameters drawn: two links that pass the first
\* validation, a link of fewer than 31 characters, a text of more than 30
\* characters that is no link, one without @ and #, and a blank
QueryTokens ==
  {VlessLink(u_id, GoodHostPort, <<"?","s","e","c","u","r","i","t","y","=","t","l","s">>, <<>>),
   TrojanLink(<<"p">>, GoodHostPort, <<"?","s","n","i","=","s",".","x">>, <<"#","n">>),
   VlessLink(u_id, GoodHostPort, <<>>, <<>>),
   <<"h","t","t","p",":","/","/","u","@","e","x",".","c","o","m","/","a","a","a","a","a","a","a","a","a","a","a","a","a","a","a","a">>,
   <<"h","t","t","p",":","/","/","e","x",".","c","o","m","/","a","a","a","a","a","a","a","a","a","a","a","a","a","a","a","a","a","a">>,
   <<" ">>}

\* link parameters: tokens joined by commas, and none
RawInputs ==
  {Join(t, ",") : t \in SeqsUpTo(QueryTokens, MaxTokens) \ {<<>>}} \cup {Undefined, <<>>}

\* the requests, and the formats, levels and batches they are drawn from
Requests == {"r1", "r2"}
RequestFormats == {"clash", "singbox", "rar"}
RequestLevels == {Basic, "standard"}
RequestBatches ==
  {<<VlessLink(u_id, GoodHostPort, <<>>, <<>>), <<"h","t","t","p",":","/","/","e","x",".","c","o","m">>,
     TrojanLink(<<"p">>, GoodHostPort, <<>>, <<"#","n">>)>>,
   <<<<"h","t","t","p",":","/","/","e","x",".","c","o","m">>, <<>>>>,
   <<JsNull>>,
   <<>>}

\* the template files there are
FileSets ==
  {{TemplatePath(f, l) : f \in {"clash", "singbox"}, l \in RequestLevels},
   {TemplatePath(f, Basic) : f \in {"clash", "singbox"}},
   {TemplatePath("clash", "standard")},
   {}}

NewRequest(input, format, level) ==
  [links |-> input, format |-> format, level |-> level, pc |-> "new", cur |-> level,
   reads |-> 0, data |-> <<>>, response |-> <<>>, at |-> 0, doneAt |-> 0]

-----------------------------------------------------------------------------
\* no template file, no request: the state of the template system during a
\* call of processLinks, which does not use it
NoTemplates ==
  /\ files = {}
  /\ cache = <<>>
  /\ now = 0
  /\ requests = <<>>

-----------------------------------------------------------------------------
(* The link parameter of a GET request *)

\* rawInput.split(',').map(l => l.trim()).filter(l => l.length > 0)
PotentialLinks(input) ==
  SelectSeq([k \in 1..Len(Split(input, ",")) |-> Trim(Split(input, ",")[k])],
            LAMBDA l : Len(l) > 0)

\* lines 686-695: the tokens that pass the first validation
Extracted(potentialLinks) ==
  SelectSeq(potentialLinks,
            LAMBDA link : Len(link) > 30 /\ (IndexOf(link, "@") # 0 \/ IndexOf(link, "#") # 0))

\* extractLinks(rawInput), lines 674-704
extractLinks(input) ==
  IF ~Truthy(input) \/ ~IsString(input) THEN Throw(<<"Input link tidak valid.">>)
  ELSE IF Extracted(PotentialLinks(input)) = <<>>
  THEN Throw(<<"Tidak ditemukan link VPN yang valid dalam input GET.">>)
  ELSE Ok(Extracted(PotentialLinks(input)))

\* getLinksFromQuery and the handler up to its call of processLinks: without
\* links the handler answers 400, an error of extractLinks it answers with 500
GetLinksFromQuery ==
  /\ pc = "query"
  /\ links' = IF Truthy(rawInput) /\ extractLinks(rawInput).ok
              THEN extractLinks(rawInput).rec ELSE <<>>
  /\ pc' = IF ~Truthy(rawInput) THEN "empty"
           ELSE IF extractLinks(rawInput).ok THEN "loop" ELSE "failed"
  /\ UNCHANGED <<i, results, rawInput, templates, health, logs>>

-----------------------------------------------------------------------------
(* The health-check service (src/unnamed/part_001) *)

\* proxy.includes(':') ? proxy.split(':') : [proxy, '80']
ProxyParts(proxy) ==
  IF IndexOf(proxy, ":") # 0 THEN Split(proxy, ":") ELSE <<proxy, <<"8","0">>>>

\* isNaN(port) for a text: the texts drawn are decimal numerals, with or
\* without a sign, or no numerals at all
IsNaN(t) ==
  ~(\/ t # <<>> /\ \A k \in 1..Len(t) : IsDigit(t[k])
    \/ Len(t) > 1 /\ t[1] \in {"-", "+"} /\ \A k \in 2..Len(t) : IsDigit(t[k]))

\* parseInt(req.query.retries) || 2
MaxRetriesOf(retries) ==
  IF parseInt(retries).nan \/ parseInt(retries).val = 0 THEN 2 ELSE parseInt(retries).val

\* res.status(status).json(body)
HealthAnswer(check, status, body) ==
  [check EXCEPT !.pc = "responded", !.sent = @ + 1,
                !.response = [status |-> status, body |-> body]]

\* lines 139-141 and 57-60: testTCPWithRetry is called and makes its first
\* attempt; with maxRetries below 0 its loop has no iteration, it returns
\* undefined, and result.success throws in the handler, which sends nothing
Tested(check) ==
  [check EXCEPT !.maxRetries = MaxRetriesOf(check.retries),
                !.pc = IF 0 <= MaxRetriesOf(check.retries) THEN "connecting" ELSE "thrown"]

\* lines 124-137
Validated(check, host, port) ==
  IF ~Truthy(host) \/ ~Truthy(port) \/ IsNaN(port)
  THEN HealthAnswer(check, 400, <<"Invalid proxy format. Use IP:PORT">>)
  ELSE IF parseInt(port).val < 1 \/ parseInt(port).val > 65535
  THEN HealthAnswer(check, 400, <<"Port must be between 1 and 65535">>)
  ELSE Tested(check)

\* lines 112-141
HealthHandled(check) ==
  IF ~Truthy(check.proxy)
  THEN HealthAnswer(check, 400,
         <<"Missing parameter \"proxy\". Example: ?proxy=1.1.1.1:8080">>)
  ELSE Validated(check, ProxyParts(check.proxy)[1], ProxyParts(check.proxy)[2])

\* GET /health arrives: the request is counted, checked, and the test begun
HealthArrives(h) ==
  /\ checks[h].pc = "new"
  /\ stats' = [stats EXCEPT !.totalRequests = @ + 1]
  /\ checks' = [checks EXCEPT ![h] = HealthHandled(@)]
  /\ UNCHANGED <<batch, templates, rawInput, logs>>

\* the socket connects: testTCPWithRetry returns success, the handler counts
\* it and answers UP
Connects(h) ==
  /\ checks[h].pc = "connecting"
  /\ stats' = [stats EXCEPT !.successCount = @ + 1]
  /\ checks' = [checks EXCEPT ![h] =
                  HealthAnswer(@, 200, [success |-> TRUE, status |-> "UP",
                                        attempt |-> checks[h].attempt + 1])]
  /\ UNCHANGED <<batch, templates, rawInput, logs>>

\* the socket errors or times out: after the last attempt testTCPWithRetry
\* returns the failure and the handler answers DOWN, before it the function
\* waits one second
AttemptFails(h) ==
  /\ checks[h].pc = "connecting"
  /\ checks' = [checks EXCEPT ![h] =
                  IF checks[h].attempt = checks[h].maxRetries
                  THEN HealthAnswer(@, 503, [success |-> FALSE, status |-> "DOWN",
                                             attempt |-> checks[h].attempt + 1])
                  ELSE [@ EXCEPT !.pc = "sleeping"]]
  /\ UNCHANGED <<stats, batch, templates, rawInput, logs>>

\* the second is over: the next attempt
Wakes(h) ==
  /\ checks[h].pc = "sleeping"
  /\ checks' = [checks EXCEPT ![h] = [@ EXCEPT !.pc = "connecting", !.attempt = @ + 1]]
  /\ UNCHANGED <<stats, batch, templates, rawInput, logs>>

\* POST /stats/reset
StatsReset ==
  /\ stats' = [totalRequests |-> 0, successCount |-> 0]
  /\ UNCHANGED <<checks, batch, templates, rawInput, logs>>

\* GET /stats: the counters and their difference
StatsReport ==
  [total_requests |-> stats.totalRequests,
   success_count |-> stats.successCount,
   failure_count |-> stats.totalRequests - stats.successCount]

\* the /health requests, and their proxy and retries parameters
HealthRequests == {"h1", "h2"}
ProxyParams ==
  {Undefined,
   <<"1",".","1",".","1",".","1",":","8","0","8","0">>,
   <<"e","x",".","c","o","m">>,
   <<"e","x",".","c","o","m",":","x">>,
   <<"e","x",".","c","o","m",":","0">>,
   <<":","8","0">>}
RetriesParams == {Undefined, <<"0">>, <<"1">>, <<"3">>, <<"-","1">>, <<"x">>}

NewCheck(proxy, retries) ==
  [proxy |-> proxy, retries |-> retries, pc |-> "new", attempt |-> 0, maxRetries |-> 0,
   sent |-> 0, response |-> <<>>]

-----------------------------------------------------------------------------
(* The log processor (src/supabase/functions/log-processor/index.ts) *)

\* lines 50-54: one more request of the worker, and its bandwidth
Counted(workers, name, bandwidth) ==
  IF \E k \in 1..Len(workers) : workers[k].worker = name
  THEN [k \in 1..Len(workers) |->
          IF workers[k].worker = name
          THEN [workers[k] EXCEPT !.requests = @ + 1, !.bandwidth = @ + bandwidth]
          ELSE workers[k]]
  ELSE Append(workers, [worker |-> name, requests |-> 1, bandwidth |-> bandwidth])

RECURSIVE Aggregate(_, _)
\* lines 40-56: the entries of the Map stats after the first k log lines, in
\* the order of their insertion; a line without a worker name counts nothing
Aggregate(lines, k) ==
  IF k = 0 THEN <<>>
  ELSE IF lines[k].WorkerName = "" THEN Aggregate(lines, k - 1)
  ELSE Counted(Aggregate(lines, k - 1), lines[k].WorkerName, lines[k].ResponseBodySize)

\* new Response(body, { status })
LogAnswer(run, status, body) ==
  [run EXCEPT !.pc = "responded", !.response = [status |-> status, body |-> body]]

\* lines 18-32: an event that is no INSERT is skipped, for an INSERT the
\* download of the file begins
Receive ==
  /\ job.pc = "new"
  /\ job' = IF job.type # "INSERT"
            THEN LogAnswer(job, 200, "Not a new file event. Skipping.")
            ELSE [job EXCEPT !.pc = "downloading"]
  /\ UNCHANGED <<storage, table, batch, templates, rawInput, health>>

\* lines 34-56: the file is there: JSON.parse throws on a line that is no
\* JSON, and otherwise the lines are aggregated by worker
Downloaded ==
  /\ job.pc = "downloading"
  /\ job.file \in storage
  /\ job' = IF \E k \in 1..Len(job.lines) : ~job.lines[k].json
            THEN LogAnswer(job, 500, "Unexpected token")
            ELSE [job EXCEPT !.pc = "updating",
                             !.todo = Aggregate(job.lines, Len(job.lines))]
  /\ UNCHANGED <<storage, table, batch, templates, rawInput, health>>

\* line 34: the download returns an error
DownloadFails ==
  /\ job.pc = "downloading"
  /\ job' = LogAnswer(job, 500, "download failed")
  /\ UNCHANGED <<storage, table, batch, templates, rawInput, health>>

\* lines 58-63: increment_worker_stats adds the counts of the next worker
IncrementApplied ==
  /\ job.pc = "updating"
  /\ job.todo # <<>>
  /\ table' = [w \in DOMAIN table \cup {job.todo[1].worker} |->
                 IF w # job.todo[1].worker THEN table[w]
                 ELSE IF w \in DOMAIN table
                 THEN [requests |-> table[w].requests + job.todo[1].requests,
                       bandwidth |-> table[w].bandwidth + job.todo[1].bandwidth]
                 ELSE [requests |-> job.todo[1].requests,
                       bandwidth |-> job.todo[1].bandwidth]]
  /\ job' = [job EXCEPT !.todo = Tail(@)]
  /\ UNCHANGED <<storage, batch, templates, rawInput, health>>

\* lines 64-66: the call returns an error, which is logged
IncrementFails ==
  /\ job.pc = "updating"
  /\ job.todo # <<>>
  /\ job' = [job EXCEPT !.todo = Tail(@), !.failed = @ \cup {job.todo[1].worker}]
  /\ UNCHANGED <<storage, table, batch, templates, rawInput, health>>

\* lines 69-82: after the loop the file is removed and the run reports success
Removed ==
  /\ job.pc = "updating"
  /\ job.todo = <<>>
  /\ storage' = storage \ {job.file}
  /\ job' = LogAnswer(job, 200, "Log processed successfully")
  /\ UNCHANGED <<table, batch, templates, rawInput, health>>

\* line 75: the removal returns an error
RemoveFails ==
  /\ job.pc = "updating"
  /\ job.todo = <<>>
  /\ job' = LogAnswer(job, 500, "remove failed")
  /\ UNCHANGED <<storage, table, batch, templates, rawInput, health>>

MaxLines == 3

\* the lines of the log files drawn: of two workers, without a worker name,
\* and no JSON
LogLines ==
  {[json |-> TRUE, WorkerName |-> "w1", ResponseBodySize |-> 10],
   [json |-> TRUE, WorkerName |-> "w2", ResponseBodySize |-> 0],
   [json |-> TRUE, WorkerName |-> "", ResponseBodySize |-> 7],
   [json |-> FALSE, WorkerName |-> "", ResponseBodySize |-> 0]}

NewRun(type, lines) ==
  [type |-> type, file |-> "f", lines |-> lines, pc |-> "new", todo |-> <<>>,
   failed |-> {}, response |-> <<>>]

\* no call of processLinks
NoBatch ==
  /\ links = <<>>
  /\ i = 0
  /\ results = <<>>
  /\ pc = "returned"

\* no GET request with a link parameter
NoQuery == rawInput = <<>>

\* the health-check service without a request
NoHealth ==
  /\ stats = [totalRequests |-> 0, successCount |-> 0]
  /\ checks = <<>>

\* the log processor without an event
NoLogs ==
  /\ storage = {}
  /\ table = <<>>
  /\ job = <<>>

Init ==
  /\ links \in Batches
  /\ i = 0
  /\ results = <<>>
  /\ pc = "loop"
  /\ NoTemplates
  /\ NoQuery
  /\ NoHealth
  /\ NoLogs

Next ==
  \/ IterateSuccess
  \/ IterateFailure
  \/ IterateRejects
  \/ Return

Spec == Init /\ [][Next]_vars

\* the template system after construction, and the requests that arrive
TemplateInit ==
  /\ links = <<>>
  /\ i = 0
  /\ results = <<>>
  /\ pc = "returned"
  /\ files \in FileSets
  /\ cache = <<>>
  /\ now = 0
  /\ requests \in [Requests -> {NewRequest(b, f, l) : b \in RequestBatches,
                                  f \in RequestFormats, l \in RequestLevels}]
  /\ NoQuery
  /\ NoHealth
  /\ NoLogs

TemplateNext ==
  \/ \E r \in Requests : Handle(r)
  \/ \E r \in Requests : ReadResolves(r)
  \/ \E r \in Requests : ReadFallsBack(r)
  \/ \E r \in Requests : ReadThrows(r)
  \/ Tick

TemplateSpec == TemplateInit /\ [][TemplateNext]_vars

\* the promise of fs.readFile settles: a request that waits for a read goes on
ReadSettles(r) == ReadResolves(r) \/ ReadFallsBack(r) \/ ReadThrows(r)

TemplateFairSpec == TemplateSpec /\ \A r \in Requests : WF_vars(ReadSettles(r))

\* the health-check service after its start, and the requests that arrive
HealthInit ==
  /\ stats = [totalRequests |-> 0, successCount |-> 0]
  /\ checks \in [HealthRequests -> {NewCheck(p, r) : p \in ProxyParams, r \in RetriesParams}]
  /\ NoBatch
  /\ NoTemplates
  /\ NoQuery
  /\ NoLogs

HealthNext ==
  \/ \E h \in HealthRequests : HealthArrives(h)
  \/ \E h \in HealthRequests : Connects(h)
  \/ \E h \in HealthRequests : AttemptFails(h)
  \/ \E h \in HealthRequests : Wakes(h)
  \/ StatsReset

HealthSpec == HealthInit /\ [][HealthNext]_vars

\* every TCP attempt connects, errors or times out, and every timer fires
AttemptSettles(h) == Connects(h) \/ AttemptFails(h) \/ Wakes(h)

HealthFairSpec == HealthSpec /\ \A h \in HealthRequests : WF_vars(AttemptSettles(h))

\* a GET request with a link parameter, before its handler reads it
QueryInit ==
  /\ rawInput \in RawInputs
  /\ links = <<>>
  /\ i = 0
  /\ results = <<>>
  /\ pc = "query"
  /\ NoTemplates
  /\ NoHealth
  /\ NoLogs

\* the links of a link parameter are texts: processLinks does not reject
QueryNext ==
  \/ GetLinksFromQuery
  \/ IterateSuccess
  \/ IterateFailure
  \/ Return

QuerySpec == QueryInit /\ [][QueryNext]_vars

\* a storage event for a log file that is in the bucket
LogInit ==
  /\ storage = {"f"}
  /\ table = <<>>
  /\ job \in {NewRun(t, l) : t \in {"INSERT", "UPDATE"}, l \in SeqsUpTo(LogLines, MaxLines)}
  /\ NoBatch
  /\ NoTemplates
  /\ NoQuery
  /\ NoHealth

LogNext ==
  \/ Receive
  \/ Downloaded
  \/ DownloadFails
  \/ IncrementApplied
  \/ IncrementFails
  \/ Removed
  \/ RemoveFails

LogSpec == LogInit /\ [][LogNext]_vars

-----------------------------------------------------------------------------
(* Properties *)

Processed == 1..Len(results)

AllText == \A k \in 1..Len(links) : IsString(links[k])

\* sub occurs in s
Contains(s, sub) ==
  \E k \in 1..(Len(s) - Len(sub) + 1) : SubSeq(s, k, k + Len(sub) - 1) = sub

\* C1: processLinks returns one entry per input link, and the entry at each
\* position carries the link of that position, whichever links are valid; a
\* batch of text links is never left without a result.
C1_OneEntryPerLinkInOrder ==
  /\ AllText => pc # "rejected"
  /\ pc = "returned" => Len(results) = Len(links)
  /\ Len(results) = i
  /\ \A k \in Processed : results[k].link = links[k]

\* a returned batch in which a failure comes before a success
C1_Witness ==
  /\ pc = "returned"
  /\ Len(links) >= 2
  /\ \E j, k \in Processed : j < k /\ ~IsSuccess(results[j]) /\ IsSuccess(results[k])

\* C2: every error raised for one entry, whether the entry is text or not,
\* becomes a failure entry with that entry's link and message, and the batch
\* is never aborted.
C2_ErrorsNeverAbortTheBatch ==
  /\ pc # "rejected"
  /\ \A k \in Processed :
        ~Convert(links[k], k - 1).ok =>
           results[k] = FailureEntry(links[k], Convert(links[k], k - 1).err)

\* C3: a successful entry at 1-based position K of the whole input has the tag
\* {displayName}-K [vortexVpn]; failures before it do not shift the number.
C3_TagNumberIsInputPosition ==
  \A k \in Processed :
     IsSuccess(results[k]) =>
        /\ results[k].tag = Or(parseAnyLink(links[k]).rec.name, <<"Proxy Server">>)
                            \o <<"-">> \o NatToStr(k) \o <<" [vortexVpn]">>
        /\ results[k].original.name = results[k].tag

\* a success at position 2 or later, right after a failure
C3_Witness ==
  \E k \in Processed :
     k >= 2 /\ IsSuccess(results[k]) /\ ~IsSuccess(results[k - 1])
     /\ Contains(results[k].tag, <<"-">> \o NatToStr(k) \o <<" [vortexVpn]">>)

\* valid links of the four schemes, all to host ex.com and port 443
ValidLinks ==
  {VlessLink(u_id, GoodHostPort, <<>>, <<>>),
   TrojanLink(<<"p">>, GoodHostPort, <<>>, <<>>),
   SsLink(Base64Encode(<<"a","e","s",":","p","w">>), GoodHostPort, <<>>, <<>>),
   VmessLink(Base64Encode(<<"{","\"","a","d","d","\"",":","\"","e","x",".","c","o","m","\"",",","\"","p","o","r","t","\"",":","\"","4","4","3","\"",",","\"","i","d","\"",":","\"","u","u","-","1","\"","}">>)),
   VmessLink(Base64Encode(<<"{","\"","a","d","d","\"",":","\"","e","x",".","c","o","m","\"",",","\"","p","o","r","t","\"",":","\"","4","4","3","\"",",","\"","i","d","\"",":","\"","u","u","-","1","\"",",","\"","t","y","p","e","\"",":","\"","n","o","n","e","\"",",","\"","p","s","\"",":","\"","M","y","%","2","0","N","a","m","e","\"","}">>))}

\* the four fragments of an entry carry this host and this port
FragmentsCarry(entry, host, port) ==
  /\ entry.formats.clash.server = host
  /\ entry.formats.clash.port = Num(port)
  /\ Contains(entry.formats.surge, host \o <<", ">> \o NatToStr(port))
  /\ Contains(entry.formats.quantumult, host \o <<":">> \o NatToStr(port))
  /\ entry.formats.singbox.server = host
  /\ entry.formats.singbox.server_port = Num(port)

\* C4: for every valid link of each of the four schemes parsing succeeds and
\* each of the four serializers gives a fragment with the host and the port of
\* the link.
C4_ValidLinkFragmentsCarryHostAndPort ==
  \A k \in Processed :
     links[k] \in ValidLinks =>
        IsSuccess(results[k]) /\ FragmentsCarry(results[k], h_example, 443)

\* the scheme of a link's prefix
SchemeOf(link) ==
  IF StartsWith(link, Lit.vlessPrefix) THEN Lit.vless
  ELSE IF StartsWith(link, Lit.vmessPrefix) THEN Lit.vmess
  ELSE IF StartsWith(link, Lit.trojanPrefix) THEN Lit.trojan
  ELSE Lit.ss

\* C5: the scheme tag of the record of an accepted link is the scheme of the
\* link's prefix, and it is that value when the record reaches the serializers.
C5_SchemeTagIsPrefixScheme ==
  \A k \in Processed :
     /\ parseAnyLink(links[k]).ok => parseAnyLink(links[k]).rec.type = SchemeOf(links[k])
     /\ IsSuccess(results[k]) => results[k].original.type = SchemeOf(links[k])

IsPort(port) == ~port.nan /\ port.val >= 1 /\ port.val <= 65535

\* C6: every record that reaches a serializer has an integer port in
\* 1..65535; a link whose port is missing, no integer or out of range gives a
\* failure entry.
C6_SerializedPortInRange ==
  \A k \in Processed : IsSuccess(results[k]) => IsPort(results[k].original.port)

\* the credential of a record: the UUID or the password
Credential(record) ==
  IF "uuid" \in DOMAIN record THEN record.uuid ELSE record.password

\* C7: a link that lacks a host or its credential never gives a success entry.
C7_NoSuccessWithoutHostOrCredential ==
  \A k \in Processed :
     IsSuccess(results[k]) =>
        Truthy(results[k].original.host) /\ Truthy(Credential(results[k].original))

\* the trojan links whose password segment is the percent-encoding of s
TrojanCases ==
  {[link |-> TrojanLink(encodeURIComponent(s), hp, q, f), password |-> s,
    wellFormed |-> (s # <<>> /\ hp = GoodHostPort)] :
     s \in Passwords, hp \in {GoodHostPort, h_example},
     q \in {<<>>, <<"?","s","n","i","=","s",".","x">>}, f \in {<<>>, <<"#","n">>}}

\* C8: for a trojan link whose password segment is the percent-encoding of s,
\* the record parseTrojan returns has the password s (and it returns one
\* whenever s is not empty and the rest of the link is well formed).
C8_TrojanPasswordRoundTrip ==
  \A k \in Processed :
     StartsWith(links[k], Lit.trojanPrefix) =>
        \A c \in TrojanCases :
           links[k] = c.link =>
              /\ c.wellFormed => parseTrojan(links[k]).ok /\ IsSuccess(results[k])
              /\ parseTrojan(links[k]).ok => parseTrojan(links[k]).rec.password = c.password
              /\ IsSuccess(results[k]) => results[k].original.password = c.password

\* a trojan link carrying the percent-encoded password of the parseTrojan test
\* has given a success entry with the decoded password
C8_Witness ==
  \E k \in Processed :
     /\ IsSuccess(results[k])
     /\ results[k].original.type = Lit.trojan
     /\ results[k].original.password = TestPassword
     /\ Contains(links[k], encodeURIComponent(TestPassword))
     /\ encodeURIComponent(TestPassword) # TestPassword

InvalidInputError == <<"Link must be a non-empty string">>
TooLongError == <<"Link is too long">>
UnsupportedError == <<"Unsupported protocol. Supported: vless, vmess, trojan, ss">>

HasKnownPrefix(link) ==
  \/ StartsWith(link, Lit.vlessPrefix) \/ StartsWith(link, Lit.vmessPrefix)
  \/ StartsWith(link, Lit.trojanPrefix) \/ StartsWith(link, Lit.ssPrefix)

\* the one parser of a link's prefix
PrefixParser(link) ==
  IF StartsWith(link, Lit.vlessPrefix) THEN parseVLESS(link)
  ELSE IF StartsWith(link, Lit.vmessPrefix) THEN parseVMess(link)
  ELSE IF StartsWith(link, Lit.trojanPrefix) THEN parseTrojan(link)
  ELSE parseSS(link)

\* what C9 says of one link and the outcome of the try block for it
Classified(link, outcome, index) ==
  IF link = <<>> \/ ~IsString(link) THEN outcome = Throw(InvalidInputError)
  ELSE IF Len(link) >= 2001 THEN outcome = Throw(TooLongError)
  ELSE IF ~HasKnownPrefix(link) THEN outcome = Throw(UnsupportedError)
  ELSE outcome = Converted(link, index, PrefixParser(link))

\* the outcome of the try block that an entry records
OutcomeOf(entry) ==
  IF IsSuccess(entry) THEN Ok(entry) ELSE Throw(entry.error)

\* C9: parseAnyLink gives every input exactly one outcome: invalid input when
\* it is empty, no text or longer than 2000 characters (2000 is accepted),
\* else unsupported scheme when its prefix is none of the four, else the
\* outcome of the one parser of its prefix.
C9_DispatchClassifiesEveryInput ==
  /\ \A k \in Processed : Classified(links[k], OutcomeOf(results[k]), k - 1)
  /\ pc = "rejected" => Classified(links[i + 1], parseAnyLink(links[i + 1]), i)

\* a link of exactly 2000 characters has been accepted
C9_Witness ==
  \E k \in Processed :
     /\ Len(links[k]) = MaxLinkLength
     /\ IsSuccess(results[k])
     /\ HasKnownPrefix(links[k])

\* C10: every shadowsocks link whose userinfo is no valid base64 fails with
\* the invalid-payload error, and no success entry comes from it.
C10_BadBase64Rejected ==
  \A k \in Processed :
     StartsWith(links[k], Lit.ssPrefix) =>
        \A ui \in BadBase64, f \in {<<>>, <<"#","n">>} :
           (links[k] = SsLink(ui, GoodHostPort, <<>>, f) /\ ~ValidBase64(ui)) =>
              results[k] = FailureEntry(links[k], <<"Invalid Shadowsocks base64 encoding">>)

\* the text of s before position k (all of s when k is 0: no such position)
Before(s, k) == IF k = 0 THEN s ELSE SubSeq(s, 1, k - 1)

\* the earlier of two positions, 0 standing for none
Earlier(a, b) == IF a = 0 THEN b ELSE IF b = 0 THEN a ELSE IF a < b THEN a ELSE b

\* C11: in a trojan link the first '?' and the first '#' are optional and come
\* in either order: the userinfo+serverinfo segment is the text before the
\* earlier of the two, and a '#' followed by text gives the display name, not
\* the placeholder Trojan Server.
C11_TrojanDelimitersInEitherOrder ==
  \A k \in Processed :
     StartsWith(links[k], Lit.trojanPrefix) =>
        LET clean == From(links[k], Len(Lit.trojanPrefix) + 1)
            q == IndexOf(clean, "?")
            f == IndexOf(clean, "#")
        IN /\ TrojanSegments(clean).info = Before(clean, Earlier(q, f))
           /\ (f # 0 /\ f < Len(clean) /\ parseTrojan(links[k]).ok) =>
                 parseTrojan(links[k]).rec.name # <<"Trojan Server">>

\* C12: a vless link with a '#' followed by text, with or without a '?' query,
\* has the percent-decoded fragment as its display name (the fragment as
\* written when decoding fails); the placeholder VLESS Server is the name only
\* when there is no fragment.
C12_VlessNameFromFragment ==
  \A k \in Processed :
     (StartsWith(links[k], Lit.vlessPrefix) /\ parseVLESS(links[k]).ok) =>
        LET f == IndexOf(links[k], "#")
        IN /\ (f # 0 /\ f < Len(links[k])) =>
                 parseVLESS(links[k]).rec.name = DecodedName(From(links[k], f + 1))
           /\ f = 0 => parseVLESS(links[k]).rec.name = <<"VLESS Server">>

\* vless links and the server name each must get: the sni parameter, else the
\* host parameter, else the literal host
VlessSniCases ==
  {[link |-> VlessLink(u_id, GoodHostPort, c.query, <<>>), serverName |-> c.serverName,
    tls |-> c.query # <<>>] :
     c \in {[query |-> <<>>, serverName |-> h_example],
            [query |-> <<"?","s","e","c","u","r","i","t","y","=","t","l","s">>, serverName |-> h_example],
            [query |-> <<"?","s","e","c","u","r","i","t","y","=","r","e","a","l","i","t","y","&","p","b","k","=","k">>, serverName |-> h_example],
            [query |-> <<"?","s","e","c","u","r","i","t","y","=","t","l","s","&","h","o","s","t","=","w",".","x">>, serverName |-> <<"w",".","x">>],
            [query |-> <<"?","s","e","c","u","r","i","t","y","=","t","l","s","&","s","n","i","=","s",".","x","&","h","o","s","t","=","w",".","x">>, serverName |-> <<"s",".","x">>],
            [query |-> <<"?","s","e","c","u","r","i","t","y","=","t","l","s","&","h","o","s","t","=","w",".","x","&","s","n","i","=","s",".","x">>, serverName |-> <<"s",".","x">>]}}

\* the four fragments of an entry have TLS on with this server name
FragmentsCarryServerName(entry, serverName) ==
  /\ entry.formats.clash.tls
  /\ entry.formats.clash.servername = serverName
  /\ Contains(entry.formats.surge, <<", tls=true, sni=">> \o serverName)
  /\ Contains(entry.formats.quantumult, <<", tls=true, sni=">> \o serverName)
  /\ entry.formats.singbox.tls.enabled
  /\ entry.formats.singbox.tls.server_name = serverName

ClashPluginOpts(clash) ==
  IF "plugin-opts" \in DOMAIN clash THEN clash["plugin-opts"] ELSE EmptyMap

\* option j of a case is the one its key ends up with: the key is not empty,
\* the value is not empty and no later option with a value has the same key
Effective(c, j) ==
  /\ c.options[j][1] # <<>>
  /\ c.options[j][2] # <<>>
  /\ \A n \in (j + 1)..Len(c.options) :
        c.options[n][1] = c.options[j][1] => c.options[n][2] = <<>>

\* C14 as the code has it: the plugin name is the text before the first ';',
\* the residual options string is the rest joined by ';', and the Clash plugin
\* options mapping maps the key tls to true and every other key to its value,
\* the last one when a key is repeated, leaving out options with no value.
C14_PluginOptionsParsed ==
  \A k \in Processed :
     StartsWith(links[k], Lit.ssPrefix) =>
        \A c \in PluginCases :
           links[k] = PluginLink(c) =>
              /\ IsSuccess(results[k])
              /\ results[k].original.plugin = c.name
              /\ results[k].original.plugin_opts =
                    Join([j \in 1..Len(c.options) |->
                            c.options[j][1] \o <<"=">> \o c.options[j][2]], ";")
              /\ results[k].formats.clash.plugin = c.name
              /\ \A j \in 1..Len(c.options) :
                    IF c.options[j][1] = Lit.tls
                    THEN /\ Lit.tls \in DOMAIN ClashPluginOpts(results[k].formats.clash)
                         /\ ClashPluginOpts(results[k].formats.clash)[Lit.tls] = JsTrue
                    ELSE Effective(c, j) =>
                           /\ c.options[j][1] \in DOMAIN ClashPluginOpts(results[k].formats.clash)
                           /\ ClashPluginOpts(results[k].formats.clash)[c.options[j][1]]
                                 = c.options[j][2]

\* the link with the plugin obfs-local;obfs=http;obfs-host=example.com has
\* been serialized
C14_Witness ==
  \E k \in Processed :
     /\ IsSuccess(results[k])
     /\ results[k].original.type = Lit.ss
     /\ results[k].original.plugin = <<"o","b","f","s","-","l","o","c","a","l">>
     /\ results[k].original.plugin_opts = <<"o","b","f","s","=","h","t","t","p",";","o","b","f","s","-","h","o","s","t","=","e","x","a","m","p","l","e",".","c","o","m">>
     /\ ClashPluginOpts(results[k].formats.clash)[<<"o","b","f","s">>] = <<"h","t","t","p">>
     /\ ClashPluginOpts(results[k].formats.clash)[<<"o","b","f","s","-","h","o","s","t">>] = <<"e","x","a","m","p","l","e",".","c","o","m">>
     /\ \E c \in PluginCases : links[k] = PluginLink(c)

\* C14: for a shadowsocks link with the plugin parameter name;k1=v1;...;kn=vn
\* the plugin name is the text before the first ';', the residual options
\* string the rest joined by ';', and the Clash plugin options mapping maps
\* every ki to vi.
C14_EveryOptionMapped ==
  \A k \in Processed :
     StartsWith(links[k], Lit.ssPrefix) =>
        \A c \in PluginCases :
           links[k] = PluginLink(c) =>
              /\ IsSuccess(results[k])
              /\ results[k].original.plugin = c.name
              /\ \A j \in 1..Len(c.options) :
                    /\ c.options[j][1] \in DOMAIN ClashPluginOpts(results[k].formats.clash)
                    /\ ClashPluginOpts(results[k].formats.clash)[c.options[j][1]]
                          = c.options[j][2]

\* the requests whose handler has asked the template system for a document
Generating == {r \in Requests : requests[r].data # <<>>}

\* those of them that have their answer
Generated == {r \in Generating : requests[r].pc = "responded"}

\* C15: a request for a level that has no template source gets the document
\* rendered from the basic template of its format, not an error, whenever the
\* basic template can be loaded.
C15_MissingLevelFallsBackToBasic ==
  \A r \in Generated :
     (/\ TemplatePath(requests[r].format, requests[r].level) \notin files
      /\ TemplatePath(requests[r].format, Basic) \in files) =>
        /\ requests[r].response.status = 200
        /\ requests[r].response.body =
              Render(Compile(TemplatePath(requests[r].format, Basic)), requests[r].data)

\* a request for the level standard, which has no source, has been answered
\* with the basic document after a failed read
C15_Witness ==
  \E r \in Generated :
     /\ requests[r].level # Basic
     /\ TemplatePath(requests[r].format, requests[r].level) \notin files
     /\ requests[r].reads >= 1
     /\ requests[r].response.status = 200
     /\ requests[r].response.body.template = TemplatePath(requests[r].format, Basic)

\* the requests with a supported format and a non-empty batch that have their
\* answer, the template they need being loadable
Convertible ==
  {r \in Requests :
     /\ requests[r].pc = "responded"
     /\ requests[r].format \in SupportedFormats
     /\ requests[r].links # <<>>
     /\ \/ TemplatePath(requests[r].format, requests[r].level) \in files
        \/ TemplatePath(requests[r].format, Basic) \in files}

\* the fragments bound to the template
Proxies(data) == IF "outbounds" \in DOMAIN data THEN data.outbounds ELSE data.proxies

\* the links of a batch that convert
Successes(input) == {k \in 1..Len(input) : Convert(input[k], k - 1).ok}

\* C16: a convert request with a supported format and a non-empty batch is
\* answered with a document built from the successful entries only, with their
\* number as the processed count, when a link converts; and fails with one
\* link/error pair for every input link when none does.
C16_DocumentOrAggregate ==
  \A r \in Convertible :
     IF Successes(requests[r].links) # {}
     THEN /\ requests[r].response.status = 200
          /\ requests[r].response.processed = Cardinality(Successes(requests[r].links))
          /\ Len(Proxies(requests[r].response.body.data))
                = Cardinality(Successes(requests[r].links))
          /\ \A k \in 1..Len(Proxies(requests[r].response.body.data)) :
                \E j \in Successes(requests[r].links) :
                   Proxies(requests[r].response.body.data)[k]
                      = Convert(requests[r].links[j], j - 1).rec.formats[requests[r].format]
     ELSE /\ requests[r].response.status = 400
          /\ requests[r].response.body
                = AllFailed([k \in 1..Len(requests[r].links) |->
                               FailureEntry(requests[r].links[k],
                                            Convert(requests[r].links[k], k - 1).err)])

\* the same for the batches processLinks resolves for
C16_ExceptRejectedBatches ==
  \A r \in Convertible :
     ~Rejects(requests[r].links) =>
       IF Successes(requests[r].links) # {}
       THEN /\ requests[r].response.status = 200
            /\ requests[r].response.processed = Cardinality(Successes(requests[r].links))
            /\ Proxies(requests[r].response.body.data)
                  = [k \in 1..Cardinality(Successes(requests[r].links)) |->
                       SelectSeq(ResultsOf(requests[r].links, Len(requests[r].links)),
                                 IsSuccess)[k].formats[requests[r].format]]
       ELSE /\ requests[r].response.status = 400
            /\ requests[r].response.body
                  = AllFailed([k \in 1..Len(requests[r].links) |->
                                 FailureEntry(requests[r].links[k],
                                              Convert(requests[r].links[k], k - 1).err)])

Resolved == {r \in Generated : requests[r].response.status = 200}

\* those for which it resolved to the template of the requested level
ResolvedOwn ==
  {r \in Resolved :
     requests[r].response.body.template = TemplatePath(requests[r].format, requests[r].level)}

\* q called loadTemplate with the key of r after r had its template, within
\* the time to live counted from there
LaterWithinTTL(r, q) ==
  /\ q \in Generating
  /\ requests[q].format = requests[r].format
  /\ requests[q].level = requests[r].level
  /\ requests[q].at > requests[r].doneAt
  /\ requests[q].at <= requests[r].doneAt + stdTTL

\* C18: after loadTemplate(format, level) has resolved to the template of that
\* level, the cache holds that template under the key (format, level); and when
\* it resolved by reading the source, a later loadTemplate(format, level) within
\* the time to live is a cache hit that reads no template source.
C18_ResolvedLevelIsCached ==
  \A r \in ResolvedOwn :
     /\ CacheKey(requests[r].format, requests[r].level) \in DOMAIN cache
     /\ cache[CacheKey(requests[r].format, requests[r].level)].template
           = Compile(TemplatePath(requests[r].format, requests[r].level))
     /\ now = requests[r].doneAt => Has(CacheKey(requests[r].format, requests[r].level))
     /\ requests[r].reads = 1 =>
          /\ now <= requests[r].doneAt + stdTTL =>
                Has(CacheKey(requests[r].format, requests[r].level))
          /\ \A q \in Requests :
                LaterWithinTTL(r, q) =>
                  /\ requests[q].reads = 0
                  /\ requests[q].pc = "responded"
                  /\ requests[q].response.body.template
                        = TemplatePath(requests[r].format, requests[r].level)

\* a template was read and cached, and a later call with its key hit the cache
C18_Witness ==
  \E r \in ResolvedOwn, q \in Requests :
     /\ requests[r].reads = 1
     /\ LaterWithinTTL(r, q)
     /\ requests[q].reads = 0
     /\ requests[q].pc = "responded"

\* C18 as stated, for every loadTemplate(format, level) that resolves
C18_EveryResolvedKeyIsCached ==
  \A r \in Resolved :
     /\ CacheKey(requests[r].format, requests[r].level) \in DOMAIN cache
     /\ \A q \in Requests :
           (LaterWithinTTL(r, q) /\ requests[r].reads > 0) => requests[q].reads = 0

\* the key of the loadTemplate call of a request, and the source of that key
KeyOf(r) == CacheKey(requests[r].format, requests[r].level)
PathOf(r) == TemplatePath(requests[r].format, requests[r].level)

\* the calls that read the source of the key of r and stored its template, the
\* fallback calls of another level among them
Writers(r) ==
  {q \in Generated : /\ requests[q].format = requests[r].format
                     /\ requests[q].cur = requests[r].level
                     /\ requests[q].response.status = 200
                     /\ requests[q].response.body.template = PathOf(r)
                     /\ requests[q].reads > 0}

\* the call of r has resolved to the template of its key, and the cache holds
\* that template under the key as the last of the calls on the key wrote it
ResolvedFromKey(r) ==
  /\ requests[r].response.status = 200
  /\ requests[r].response.body.template = PathOf(r)
  /\ KeyOf(r) \in DOMAIN cache
  /\ cache[KeyOf(r)].template = Compile(PathOf(r))
  /\ \A q \in Writers(r) : cache[KeyOf(r)].expires >= requests[q].doneAt + stdTTL
  /\ \E q \in Writers(r) : cache[KeyOf(r)].expires = requests[q].doneAt + stdTTL

\* the step in which the read of r resolves
Resolving(r) == requests[r].pc = "reading" /\ requests'[r].pc = "responded"

\* the cache entries of the keys other than that of r are as they were
OtherKeysUnchanged(r) ==
  \A key \in DOMAIN cache' \ {KeyOf(r)} : key \in DOMAIN cache /\ cache'[key] = cache[key]

BothFailed ==
  {r \in Generated : /\ requests[r].level # Basic
                     /\ requests[r].response.status = 500}

\* C20: when the requested level, not the baseline, fails to load and the
\* baseline fails too, the error that reaches the caller names the requested
\* level and carries the failure message of that level.
C20_OriginalErrorPropagated ==
  \A r \in BothFailed :
     requests[r].response.body
        = LoadError(requests[r].format, requests[r].level,
                    ReadError(TemplatePath(requests[r].format, requests[r].level)))

\* what the code propagates: the error of the baseline
C20_BaselineErrorPropagated ==
  \A r \in BothFailed :
     requests[r].response.body
        = LoadError(requests[r].format, Basic,
                    ReadError(TemplatePath(requests[r].format, Basic)))

\* C21: a call of loadTemplate attempts at most two reads of a template
\* source, that of the requested level and then at most one of the baseline,
\* and ends, resolving or rejecting; after a failed read of the baseline no
\* further read is begun.
C21_AtMostTwoReadsThenEnds ==
  /\ [](\A r \in Requests : requests[r].reads <= 2)
  /\ [][\A r \in Requests :
          (requests[r].pc = "reading" /\ requests[r].cur = Basic /\ requests'[r] # requests[r]
           /\ TemplatePath(requests[r].format, Basic) \notin files)
             => requests'[r].pc = "responded" /\ requests'[r].reads = requests[r].reads]_vars
  /\ \A r \in Requests : (requests[r].pc = "reading") ~> (requests[r].pc = "responded")

\* both reads of a call failed, and the call ended with the second
C21_Witness ==
  \E r \in Generated : requests[r].reads = 2 /\ requests[r].response.status = 500

\* the success entries whose Clash fragment and whose sing-box fragment both
\* carry an ALPN list
EmitAlpn ==
  {k \in Processed :
     /\ IsSuccess(results[k])
     /\ "alpn" \in DOMAIN results[k].formats.clash
     /\ "tls" \in DOMAIN results[k].formats.singbox
     /\ "alpn" \in DOMAIN results[k].formats.singbox.tls}

\* C22: a serializer that emits ALPN as a list emits the trimmed, non-empty
\* tokens of the record's ALPN text in their order, so the Clash and the
\* sing-box fragment of a record carry equal lists.
C22_AlpnListsAgree ==
  \A k \in EmitAlpn :
     /\ results[k].formats.clash["alpn"] = AlpnTrimmedNonEmpty(results[k].original.alpn)
     /\ results[k].formats.singbox.tls.alpn = AlpnTrimmedNonEmpty(results[k].original.alpn)
     /\ results[k].formats.clash["alpn"] = results[k].formats.singbox.tls.alpn

\* what the code does: the sing-box list is the Clash list without its empty
\* tokens
C22_SingBoxListIsFilteredClashList ==
  \A k \in EmitAlpn :
     /\ results[k].formats.clash["alpn"] = AlpnTrimmed(results[k].original.alpn)
     /\ results[k].formats.singbox.tls.alpn
           = SelectSeq(results[k].formats.clash["alpn"], LAMBDA a : a # <<>>)

\* the success entries of vless records in reality mode that name no
\* client fingerprint
RealityWithoutFp ==
  {k \in Processed :
     /\ IsSuccess(results[k])
     /\ results[k].original.type = Lit.vless
     /\ results[k].original.security = Lit.reality
     /\ ~Truthy(results[k].original.fp)}

\* C23: for a vless record in reality mode without a client fingerprint, the
\* Clash fragment (client-fingerprint) and the sing-box fragment
\* (utls.fingerprint) carry the default "chrome".
C23_RealityFingerprintDefault ==
  \A k \in RealityWithoutFp :
     /\ "client-fingerprint" \in DOMAIN results[k].formats.clash =>
           results[k].formats.clash["client-fingerprint"] = Lit.chrome
     /\ results[k].formats.singbox.tls.utls.fingerprint = Lit.chrome

\* what the code does: the default is applied by toSingBox only, and the
\* Clash fragment carries the empty fingerprint of the record
C23_DefaultInSingBoxOnly ==
  \A k \in RealityWithoutFp :
     /\ results[k].formats.clash["client-fingerprint"] = <<>>
     /\ results[k].formats.singbox.tls.utls.fingerprint = Lit.chrome

\* the success entries of vless, vmess and trojan links
WithTransportSecurity ==
  {k \in Processed :
     /\ IsSuccess(results[k])
     /\ SchemeOf(results[k].link) \in {Lit.vless, Lit.vmess, Lit.trojan}}

\* the transport security of the record is off: security 'none' in a vless
\* record, the tls flag false in a vmess record
SecurityDisabled(k) ==
  \/ SchemeOf(results[k].link) = Lit.vless /\ results[k].original.security = Lit.none
  \/ SchemeOf(results[k].link) = Lit.vmess /\ results[k].original.tls = FALSE

\* C24: the sing-box fragment of every vless, vmess or trojan record has a tls
\* object, and that object is exactly {enabled: false} whenever the transport
\* security of the record is off.
C24_TlsObjectAlwaysPresent ==
  \A k \in WithTransportSecurity :
     /\ "tls" \in DOMAIN results[k].formats.singbox
     /\ SecurityDisabled(k) => results[k].formats.singbox.tls = [enabled |-> FALSE]

\* what the code does: the tls object is there, and it is {enabled: false}
\* for a record with its transport security off unless the cipher of a vmess
\* record is named like a transport security
C24_ExceptCipherNamedLikeSecurity ==
  \A k \in WithTransportSecurity :
     /\ "tls" \in DOMAIN results[k].formats.singbox
     /\ (SecurityDisabled(k) /\ results[k].original.security \notin {Lit.tls, Lit.reality})
           => results[k].formats.singbox.tls = [enabled |-> FALSE]

\* C25: in every state of the health-check service, whatever the order of the
\* steps of its /health requests and of the resets, the count of successes is
\* at most the count of requests, so the failure count of GET /stats is not
\* negative.
C25_SuccessesWithinTotal ==
  /\ stats.successCount <= stats.totalRequests
  /\ StatsReport.failure_count >= 0

\* what the code keeps: the successes counted are at most the requests counted
\* and those that were in flight at the last reset
C25_SuccessesWithinTotalAndInFlight ==
  stats.successCount
     <= stats.totalRequests
        + Cardinality({h \in HealthRequests : checks[h].pc \in {"connecting", "sleeping"}})
        + Cardinality({h \in HealthRequests :
                         checks[h].pc = "responded" /\ checks[h].response.status = 200})

\* the /health requests with a well-formed proxy parameter that have arrived
WellFormed(h) ==
  /\ checks[h].pc # "new"
  /\ Truthy(checks[h].proxy)
  /\ Truthy(ProxyParts(checks[h].proxy)[1])
  /\ ~IsNaN(ProxyParts(checks[h].proxy)[2])
  /\ parseInt(ProxyParts(checks[h].proxy)[2]).val \in 1..65535

\* the request has its one answer, UP or DOWN
AnsweredUpOrDown(h) ==
  /\ checks[h].pc = "responded"
  /\ checks[h].sent = 1
  /\ checks[h].response.status \in {200, 503}

\* C26: every /health request with a well-formed proxy parameter is in the
\* end answered exactly once, with 200 UP or with 503 DOWN, whatever integer
\* its retries parameter is, when every TCP attempt connects, errors or times
\* out.
C26_EveryCheckIsAnswered ==
  /\ [](\A h \in HealthRequests : checks[h].sent <= 1)
  /\ \A h \in HealthRequests : WellFormed(h) ~> AnsweredUpOrDown(h)

\* what the code does: the same for the requests whose retries parameter is
\* no negative integer
C26_UnlessRetriesNegative ==
  /\ [](\A h \in HealthRequests : checks[h].sent <= 1)
  /\ \A h \in HealthRequests :
        (WellFormed(h) /\ 0 <= MaxRetriesOf(checks[h].retries)) ~> AnsweredUpOrDown(h)

\* the non-empty trimmed tokens of the link parameter
Tokens == IF IsString(rawInput) THEN PotentialLinks(rawInput) ELSE <<>>

\* C27: in the comma-separated input mode every non-empty trimmed token of
\* the input is passed to processLinks: the batch has one entry per token, a
\* malformed token has a failure entry, and the tag numbers count the
\* positions in the list the user gave.
C27_EveryTokenIsProcessed ==
  /\ pc \in {"loop", "returned", "failed", "empty"} => links = Tokens
  /\ pc = "returned" =>
        /\ Len(results) = Len(Tokens)
        /\ \A k \in 1..Len(results) :
              /\ results[k].link = Tokens[k]
              /\ IsSuccess(results[k]) =>
                    results[k].tag = ConfigName(parseAnyLink(Tokens[k]).rec, k - 1)

\* what the code does: the links passed are the tokens of more than 30
\* characters that contain @ or #, and the others are dropped
C27_OnlyTokensPassingTheFilter ==
  pc \in {"loop", "returned", "failed", "empty"} =>
     /\ links = Extracted(Tokens)
     /\ pc = "failed" <=> (Truthy(rawInput) /\ Extracted(Tokens) = <<>>)

\* C28: the level a successful convert response reports in X-Template-Level
\* is the level of the template that was rendered into its document.
C28_ReportedLevelIsRenderedLevel ==
  \A r \in Resolved :
     requests[r].response.body.template
        = TemplatePath(requests[r].format, requests[r].response.level)

\* what the code does: the header carries the level that was requested, and
\* the document is rendered from the template of that level or of the baseline
C28_ReportedLevelIsRequestedLevel ==
  \A r \in Resolved :
     /\ requests[r].response.level = requests[r].level
     /\ requests[r].response.body.template
           \in {TemplatePath(requests[r].format, requests[r].level),
                TemplatePath(requests[r].format, Basic)}

\* the increment of every worker aggregated from the file is in the table
AllApplied ==
  \A k \in 1..Len(Aggregate(job.lines, Len(job.lines))) :
     /\ Aggregate(job.lines, Len(job.lines))[k].worker \in DOMAIN table
     /\ table[Aggregate(job.lines, Len(job.lines))[k].worker]
           = [requests |-> Aggregate(job.lines, Len(job.lines))[k].requests,
              bandwidth |-> Aggregate(job.lines, Len(job.lines))[k].bandwidth]

\* C29: the log file is removed from storage only after the increment of
\* every worker aggregated from it has been applied; when an increment fails
\* the file is kept and the run reports an error.
C29_FileRemovedOnlyAfterAllIncrements ==
  /\ job.file \notin storage => AllApplied
  /\ (job.failed # {} /\ job.pc = "responded") =>
        job.file \in storage /\ job.response.status = 500

\* what the code does: the file is removed once every increment has been
\* attempted, whether it was applied or not
C29_FileRemovedAfterAllAttempts ==
  job.file \notin storage =>
     /\ job.todo = <<>>
     /\ job.response.status = 200
     /\ \A k \in 1..Len(Aggregate(job.lines, Len(job.lines))) :
           \/ Aggregate(job.lines, Len(job.lines))[k].worker \in job.failed
           \/ Aggregate(job.lines, Len(job.lines))[k].worker \in DOMAIN table

====
